---- MODULE Spec2Model ----
(***************************************************************************)
(* Crash-risk routing front end (VTHacks13, web/).                         *)
(*                                                                         *)
(* Part 1: the prediction client of web/src/lib/crashMagnitudeApi.ts: the  *)
(* module-level circuit breaker (circuitBreakerFailures,                   *)
(* circuitBreakerLastFailTime), the magnitudeCache map and the calls of    *)
(* getCachedCrashMagnitude that run concurrently on the single JavaScript  *)
(* thread.  A call is cut at its awaits: between two awaits it runs to     *)
(* completion, so each action below is one such run.                       *)
(*                                                                         *)
(* Part 2: handleGetRoute / handleClear of                                 *)
(* web/src/app/components/DirectionsSidebar.tsx.                           *)
(*                                                                         *)
(* Part 3: the batched enrichments of web/src/app/lib/mapUtils.ts          *)
(* (convertCrashDataToGeoJSONWithAI, generateDCPointsWithAI).              *)
(*                                                                         *)
(* Part 4: the pure functions of web/src/lib/mapUtils.ts                   *)
(* (calculateTraditionalMagnitude, convertCrashDataToGeoJSON,              *)
(* createRouteGradientStops, calculateRouteSegmentDensities), each under a *)
(* specification that starts from every input of a bounded set.            *)
(*                                                                         *)
(* Times are milliseconds (Date.now()).  Coordinates are integers in units *)
(* of 1e-7 degree, so that toFixed(6) has a digit to round away.           *)
(***************************************************************************)
EXTENDS Integers, Sequences, FiniteSets, TLC

VARIABLES
    now,                        \* Date.now()
    circuitBreakerFailures,     \* crashMagnitudeApi.ts:169
    circuitBreakerLastFailTime, \* crashMagnitudeApi.ts:170
    magnitudeCache,             \* crashMagnitudeApi.ts:163, a Map as a set of entries
    calls,                      \* the getCachedCrashMagnitude calls, by slot
    circuitState,               \* observer: "closed", "open" since the breaker-opened event
                                \* of l.192, "half-open" since the cool-down reset of l.179-181
    consecFailures,             \* observer: failed calls since the last successful one (saturating)
    originCoord,                \* DirectionsSidebar.tsx:22
    destCoord,                  \* DirectionsSidebar.tsx:23
    loading,                    \* DirectionsSidebar.tsx:24
    routes,                     \* DirectionsSidebar.tsx:30
    selectedRouteIndex,         \* DirectionsSidebar.tsx:31 (0-based, as in the code)
    rerouteInfo,                \* DirectionsSidebar.tsx:26
    mapLayers,                  \* ids of the route layers present on the map
    routePc,                    \* where the running handleGetRoute is suspended
    predictResult,              \* what callPredictEndpoint resolved to
    enrichFn,                   \* the batched enrichment that runs: "crashes"
                                \* (convertCrashDataToGeoJSONWithAI), "points"
                                \* (generateDCPointsWithAI) or "none"
    crashes,                    \* app/lib/mapUtils.ts:162, the argument
    count,                      \* app/lib/mapUtils.ts:274, the argument
    enhancedFeatures,           \* app/lib/mapUtils.ts:170
    promises,                   \* the batchPromises, by item: "none", "pending" or settled
    batchStart,                 \* the loop variable i of l.173 / l.301
    enrichPc,                   \* where the enrichment is suspended
    successfulPredictions,      \* app/lib/mapUtils.ts:171
    crash,                      \* lib/mapUtils.ts:12, the record that is scored
    magnitude,                  \* what calculateTraditionalMagnitude returned, in tenths
    libFeatures,                \* features of lib/mapUtils.ts convertCrashDataToGeoJSON([crash])
    appFeatures,                \* features of app/lib/mapUtils.ts convertCrashDataToGeoJSON([crash])
    scorePc,                    \* "idle", "input", "scored" or "converted"
    segmentDensities,           \* lib/mapUtils.ts:396, the argument, in tenths
    scale,                      \* the factor of a second, uniformly scaled call
    stops,                      \* the stops of createRouteGradientStops(segmentDensities)
    scaledStops,                \* the stops of the call with every density times scale
    gradientPc,                 \* "idle", "input", "encoded" or "compared"
    routeCoordinates,           \* lib/mapUtils.ts:364, the polyline
    crashData,                  \* lib/mapUtils.ts:365, the incidents
    densities,                  \* what calculateRouteSegmentDensities returned
    densityPc                   \* "idle", "input" or "done"

\* ---- state of the map page: data hook, store adapter, clicks, popup ----
VARIABLES
    yearFilter,                 \* part_002:30 (useCrashData)
    data,                       \* part_002:26, a record per crash: the year and page it was fetched with
    crashLoading,               \* part_002:27, the hook's loading
    error,                      \* part_002:28
    pagination,                 \* part_002:29
    requests,                   \* the fetchCrashData calls that wait for their response
    issued,                     \* observer: how many requests the hook has sent
    collection,                 \* the documents of the crashes collection
    storeUp,                    \* whether the MongoDB client can connect (part_017:38-48)
    pageResponse,               \* what GET /api/crashes answered (part_017:156-189)
    nearbyResponse,             \* what GET /api/crashes/nearby answered (part_017:208-329)
    storePc,                    \* "idle", "input" or the set of routes that have answered
    isOriginMapPicking,         \* DirectionsSidebar.tsx:27
    isDestMapPicking,           \* DirectionsSidebar.tsx:28
    isMapPickingMode,           \* part_018:22, the prop and ref of MapView.tsx:60-74
    activeData,                 \* the crash data in the closure of computeNearbyStats (MapView.tsx:248-251)
    network,                    \* whether a fetch of the page reaches the API: "up" or "down"
    pendingClicks,              \* the handlers that await computeNearbyStats
    delivered,                  \* the argument of the last onPopupCreate call
    clicks,                     \* observer: how many click events the map has fired
    popup,                      \* part_018:20, a record with the identity of the popup, or Null
    popupVisible,               \* part_018:21
    frames,                     \* pending requestAnimationFrame callbacks of onPopupCreate (part_018:67)
    removals,                   \* pending 220 ms timers of onClose (part_018:73)
    isHovered,                  \* part_003:18
    timeLeft,                   \* part_003:19
    aiDataLoaded,               \* part_003:21
    apiData,                    \* part_003:24, Null for {} or the popup its content was fetched for
    apiError,                   \* part_003:29, whether it is set
    apiLoading,                 \* part_003:28
    fetchTimer,                 \* the pending 300 ms timer of part_003:68: the popup it will fetch for, or Null
    fetches,                    \* the fetchApiData calls that await their responses, by popup
    dismissals,                 \* pending setTimeout(() => onClose(), 0) of part_003:222
    created,                    \* observer: how many popups onPopupCreate has set
    closedPopups,               \* observer: the popups that were the popup when onClose ran
    settledPopups               \* observer: the popups whose fetchApiData has settled

hookVars == <<yearFilter, data, crashLoading, error, pagination, requests, issued>>
storeVars == <<collection, storeUp, pageResponse, nearbyResponse, storePc>>
clickVars == <<isOriginMapPicking, isDestMapPicking, isMapPickingMode, activeData, network, pendingClicks, delivered, clicks>>
popupVars == <<popup, popupVisible, frames, removals, isHovered, timeLeft, aiDataLoaded, apiData, apiError, apiLoading, fetchTimer, fetches, dismissals, created, closedPopups, settledPopups>>
uiVars == <<hookVars, storeVars, clickVars, popupVars>>
\* ---- end of the map page state ----

breakerVars == <<now, circuitBreakerFailures, circuitBreakerLastFailTime,
                 magnitudeCache, calls, circuitState, consecFailures>>
routeVars == <<originCoord, destCoord, loading, routes, selectedRouteIndex,
               rerouteInfo, mapLayers, routePc, predictResult>>
enrichVars == <<enrichFn, crashes, count, enhancedFeatures, promises, batchStart,
                enrichPc, successfulPredictions>>
vars == <<now, circuitBreakerFailures, circuitBreakerLastFailTime,
          magnitudeCache, calls, circuitState, consecFailures,
          originCoord, destCoord, loading, routes, selectedRouteIndex,
          rerouteInfo, mapLayers, routePc, predictResult,
          enrichFn, crashes, count, enhancedFeatures, promises, batchStart,
          enrichPc, successfulPredictions,
          crash, magnitude, libFeatures, appFeatures, scorePc,
          segmentDensities, scale, stops, scaledStops, gradientPc,
          routeCoordinates, crashData, densities, densityPc, uiVars>>
scoreVars == <<crash, magnitude, libFeatures, appFeatures, scorePc>>
gradientVars == <<segmentDensities, scale, stops, scaledStops, gradientPc>>
densityVars == <<routeCoordinates, crashData, densities, densityPc>>
pureVars == <<scoreVars, gradientVars, densityVars>>

\* what the actions of one part leave alone
notBreakerVars == <<routeVars, enrichVars, pureVars, uiVars>>
notRouteVars == <<breakerVars, enrichVars, pureVars, uiVars>>
notEnrichVars == <<breakerVars, routeVars, pureVars, uiVars>>
notPureVars == <<breakerVars, routeVars, enrichVars, uiVars>>

\* ---- what the actions of one part of the map page leave alone ----
notUiVars == <<breakerVars, routeVars, enrichVars, pureVars>>
notHookVars == <<notUiVars, storeVars, clickVars, popupVars>>
notStoreVars == <<notUiVars, hookVars, clickVars, popupVars>>
notClickVars == <<notUiVars, hookVars, storeVars, popupVars>>
notPopupVars == <<notUiVars, hookVars, storeVars, clickVars>>
\* ---- end of what they leave alone ----

----------------------------------------------------------------------------
(* Program constants *)

CACHE_DURATION == 5 * 60 * 1000
autoDismissMs == 5000          \* PopupOverlay's default, which the page uses
interval == 50                 \* the period of the countdown
CIRCUIT_BREAKER_THRESHOLD == 3
CIRCUIT_BREAKER_RESET_TIME == 300000

(* Bounds of the model *)

MaxCalls == 2        \* call slots: calls that can be in flight together
MaxRoutes == 2       \* candidate routes in one response of the directions API
MaxCrashes == 11     \* longest crash list given to convertCrashDataToGeoJSONWithAI
MaxPoints == 21      \* largest count given to generateDCPointsWithAI

Calls == 1..MaxCalls
Predictions == {1, 2}

\* The clock starts at a wall-clock time, far more than the reset time after
\* the epoch that circuitBreakerLastFailTime = 0 stands for.
StartTime == 4 * CIRCUIT_BREAKER_RESET_TIME

\* The instants at which the model looks at the clock: a start t0 and, for
\* the cool-down / TTL D that starts at t0, t0 + D - 1, t0 + D and t0 + D + 1.
Instants == {StartTime, StartTime + CIRCUIT_BREAKER_RESET_TIME - 1,
             StartTime + CIRCUIT_BREAKER_RESET_TIME,
             StartTime + CIRCUIT_BREAKER_RESET_TIME + 1}

\* Coordinates offered to the calls, in 1e-7 degree: latitudes 38.9000004,
\* 38.9000006 and 38.9000014 (the last two round to the same 6 decimals),
\* longitude -77.0.
Lats == {389000004, 389000006, 389000014}
Lons == {-770000000}

Null == [isNull |-> TRUE]

----------------------------------------------------------------------------
(* crashMagnitudeApi.ts: pure helpers *)

Abs(x) == IF x < 0 THEN -x ELSE x

\* Number.prototype.toFixed(6) of x/1e7: the sign is kept when x < 0 (also
\* when the digits round to zero: "-0.000000"), the magnitude is rounded
\* to the nearest 1e-6.
ToFixed6(x) == [neg |-> x < 0, n |-> (Abs(x) + 5) \div 10]

getCacheKey(lat, lon) == <<ToFixed6(lat), ToFixed6(lon)>>

\* Map.prototype.get / set on the set-of-entries representation
MapHas(m, k) == \E e \in m : e.key = k
MapGet(m, k) == CHOOSE e \in m : e.key = k
MapSetNoReplace(m, k, v) == m \cup {[key |-> k, prediction |-> v.prediction, timestamp |-> v.timestamp]}
MapSet(m, k, v) ==
    {e \in m : e.key # k} \cup {[key |-> k, prediction |-> v.prediction, timestamp |-> v.timestamp]}

\* l.218: cached && Date.now() - cached.timestamp < CACHE_DURATION
CacheHitInclusive(m, k, t) == MapHas(m, k) /\ t - MapGet(m, k).timestamp <= CACHE_DURATION
CacheHitBreakerFirst(m, k, t) ==
    /\ ~(/\ t - circuitBreakerLastFailTime <= CIRCUIT_BREAKER_RESET_TIME
         /\ circuitBreakerFailures >= CIRCUIT_BREAKER_THRESHOLD)
    /\ MapHas(m, k) /\ t - MapGet(m, k).timestamp < CACHE_DURATION
CacheHit(m, k, t) == MapHas(m, k) /\ t - MapGet(m, k).timestamp < CACHE_DURATION

\* isCircuitBreakerOpen, l.175-186: the value it returns ...
CIRCUIT_BREAKER_TIMEOUT == 60000
ResetElapsedAfterTimeout(last, t) == t - last > CIRCUIT_BREAKER_TIMEOUT
ResetElapsed(last, t) == t - last > CIRCUIT_BREAKER_RESET_TIME

isCircuitBreakerOpenLate(f, last, t) ==
    IF ResetElapsed(last, t) THEN FALSE ELSE f > CIRCUIT_BREAKER_THRESHOLD
isCircuitBreakerOpen(f, last, t) ==
    IF ResetElapsed(last, t) THEN FALSE ELSE f >= CIRCUIT_BREAKER_THRESHOLD

\* ... and the counter it leaves behind (l.179-181)
FailuresAfterCheck(f, last, t) == IF ResetElapsed(last, t) THEN 0 ELSE f

\* recordCircuitBreakerFailure, l.188-195
FailuresAfterFailure(f) == f + 1

\* recordCircuitBreakerSuccess, l.197-202
FailuresAfterSuccessDecrement(f) == IF f > 0 THEN f - 1 ELSE f
FailuresAfterSuccess(f) == IF f > 0 THEN 0 ELSE f

----------------------------------------------------------------------------
(* crashMagnitudeApi.ts: the calls *)

\* A call: where it is suspended (pc), the cache key of its coordinates, how
\* it returned (outcome), what it returned (result) and the breaker outcomes
\* it recorded on the way (recorded).
IdleCall == [pc |-> "idle", key |-> <<>>, result |-> Null, outcome |-> "none",
             recorded |-> <<>>]

\* A settled call's continuation runs in the same job of the event loop, before
\* any other event is handled: nothing else happens while a result is pending.
NoReturnPending == \A c \in Calls : calls[c].pc # "done"

SatInc(n) == IF n >= CIRCUIT_BREAKER_THRESHOLD THEN n ELSE n + 1

\* The observer's view of the breaker after the check of l.175-186 ...
StateAfterCheck(st, f, last, t) ==
    IF ResetElapsed(last, t)
    THEN IF f >= CIRCUIT_BREAKER_THRESHOLD THEN "half-open"
         ELSE IF st = "open" THEN "closed" ELSE st
    ELSE st
\* ... after a recorded failure that leaves the counter at f ...
StateAfterFailure(st, f) ==
    IF f >= CIRCUIT_BREAKER_THRESHOLD THEN "open"
    ELSE IF st = "half-open" THEN "closed" ELSE st
\* ... and after a recorded success.
StateAfterSuccess(st) == IF st = "half-open" THEN "closed" ELSE st

\* l.42, l.84, l.123 with l.223-232: a call that is short-circuited or fails
\* returns null, whatever the cache holds under its key
UnavailableResultStale(m, k) ==
    IF MapHas(m, k) THEN [prediction |-> MapGet(m, k).prediction] ELSE Null
UnavailableResult(m, k) == Null

\* getCachedCrashMagnitude(lat, lon) up to its first await (l.211-223), with
\* getPointCrashMagnitude and getCrashMagnitudePrediction up to the fetch
\* (l.33-79).  A cache hit and a short-circuited call return in the same run.
GetCachedCrashMagnitude(c, lat, lon) ==
    /\ NoReturnPending
    /\ calls[c].pc = "idle"
    /\ LET cacheKey == getCacheKey(lat, lon)
           mine == [IdleCall EXCEPT !.key = cacheKey]
       IN IF CacheHit(magnitudeCache, cacheKey, now)
          THEN /\ calls' = [calls EXCEPT ![c] =
                      [mine EXCEPT !.pc = "done", !.outcome = "cache",
                                   !.result = [prediction |-> MapGet(magnitudeCache, cacheKey).prediction]]]
               /\ UNCHANGED <<circuitBreakerFailures, circuitState>>
          ELSE /\ circuitBreakerFailures' =
                      FailuresAfterCheck(circuitBreakerFailures, circuitBreakerLastFailTime, now)
               /\ circuitState' = StateAfterCheck(circuitState, circuitBreakerFailures,
                                                  circuitBreakerLastFailTime, now)
               /\ IF isCircuitBreakerOpen(circuitBreakerFailures, circuitBreakerLastFailTime, now)
                  THEN calls' = [calls EXCEPT ![c] =
                           [mine EXCEPT !.pc = "done", !.outcome = "open",
                                        !.result = UnavailableResult(magnitudeCache, cacheKey)]]
                  ELSE calls' = [calls EXCEPT ![c] = [mine EXCEPT !.pc = "fetching"]]
    /\ UNCHANGED <<now, circuitBreakerLastFailTime, magnitudeCache, consecFailures>>
    /\ UNCHANGED notBreakerVars

\* recordCircuitBreakerFailure() and "return null", l.83-84 and l.110-123;
\* getCachedCrashMagnitude then stores nothing (l.225) and returns null.
FailCall(c) ==
    /\ circuitBreakerFailures' = FailuresAfterFailure(circuitBreakerFailures)
    /\ circuitBreakerLastFailTime' = now
    /\ circuitState' = StateAfterFailure(circuitState, circuitBreakerFailures')
    /\ consecFailures' = SatInc(consecFailures)
    /\ calls' = [calls EXCEPT ![c].pc = "done", ![c].outcome = "failed",
                              ![c].recorded = Append(calls[c].recorded, "failure"),
                              ![c].result = UnavailableResult(magnitudeCache, calls[c].key)]
    /\ UNCHANGED <<now, magnitudeCache>>
    /\ UNCHANGED notBreakerVars

\* fetch rejects: network error, or AbortSignal.timeout(10000) fired (l.79, l.109)
FetchThrows(c) ==
    /\ NoReturnPending
    /\ calls[c].pc = "fetching"
    /\ FailCall(c)

\* fetch resolves with !response.ok (l.81-85)
FetchNotOk(c) ==
    /\ NoReturnPending
    /\ calls[c].pc = "fetching"
    /\ FailCall(c)

\* fetch resolves with response.ok: the call awaits response.json() (l.87)
FetchOk(c) ==
    /\ NoReturnPending
    /\ calls[c].pc = "fetching"
    /\ calls' = [calls EXCEPT ![c].pc = "json"]
    /\ UNCHANGED <<now, circuitBreakerFailures, circuitBreakerLastFailTime,
                   magnitudeCache, circuitState, consecFailures>>
    /\ UNCHANGED notBreakerVars

\* response.json() rejects: the body is not JSON (l.87, l.109-110)
JsonThrows(c) ==
    /\ NoReturnPending
    /\ calls[c].pc = "json"
    /\ FailCall(c)

\* The three answers the client accepts (l.94-104) carry a number p:
\* {prediction: {prediction: p}}, {prediction: p} and {index: p}.
Formats == {"object", "number", "index"}

\* l.225-230: what getCachedCrashMagnitude stores for the prediction it got
StorePrediction(m, k, p, t) == MapSet(m, k, [prediction |-> p, timestamp |-> t])

\* response.json() resolves with an answer the client accepts: success is
\* recorded (l.91), the prediction returned (l.94-104) and stored under the
\* call's key by getCachedCrashMagnitude (l.225-232).
JsonParsed(c, fmt, p) ==
    /\ NoReturnPending
    /\ calls[c].pc = "json"
    /\ circuitBreakerFailures' = FailuresAfterSuccess(circuitBreakerFailures)
    /\ circuitState' = StateAfterSuccess(circuitState)
    /\ consecFailures' = 0
    /\ calls' = [calls EXCEPT ![c].pc = "done", ![c].outcome = "ok",
                              ![c].recorded = Append(calls[c].recorded, "success"),
                              ![c].result = [prediction |-> p]]
    /\ magnitudeCache' = StorePrediction(magnitudeCache, calls[c].key, p, now)
    /\ UNCHANGED <<now, circuitBreakerLastFailTime>>
    /\ UNCHANGED notBreakerVars

\* response.json() resolves with an answer of none of the three shapes:
\* success is recorded (l.91), null returned (l.106-107), nothing stored.
JsonUnexpected(c) ==
    /\ NoReturnPending
    /\ calls[c].pc = "json"
    /\ circuitBreakerFailures' = FailuresAfterSuccess(circuitBreakerFailures)
    /\ circuitState' = StateAfterSuccess(circuitState)
    /\ consecFailures' = 0
    /\ calls' = [calls EXCEPT ![c].pc = "done", ![c].outcome = "badformat",
                              ![c].recorded = Append(calls[c].recorded, "success"),
                              ![c].result = Null]
    /\ UNCHANGED <<now, circuitBreakerLastFailTime, magnitudeCache>>
    /\ UNCHANGED notBreakerVars

\* response.json() resolves with null (the body is the JSON text null):
\* success is recorded (l.91), then reading data.prediction throws a
\* TypeError (l.94), the catch records a failure (l.109-110) and null is
\* returned (l.123); nothing is stored.
JsonNull(c) ==
    /\ NoReturnPending
    /\ calls[c].pc = "json"
    /\ circuitBreakerFailures' =
           FailuresAfterFailure(FailuresAfterSuccess(circuitBreakerFailures))
    /\ circuitBreakerLastFailTime' = now
    /\ circuitState' = StateAfterFailure(StateAfterSuccess(circuitState),
                                         circuitBreakerFailures')
    /\ consecFailures' = SatInc(0)
    /\ calls' = [calls EXCEPT ![c].pc = "done", ![c].outcome = "nullbody",
                              ![c].recorded = calls[c].recorded \o <<"success", "failure">>,
                              ![c].result = UnavailableResult(magnitudeCache, calls[c].key)]
    /\ UNCHANGED <<now, magnitudeCache>>
    /\ UNCHANGED notBreakerVars

\* The caller takes the settled result; the slot is free for the next call.
Return(c) ==
    /\ calls[c].pc = "done"
    /\ calls' = [calls EXCEPT ![c] = IdleCall]
    /\ UNCHANGED <<now, circuitBreakerFailures, circuitBreakerLastFailTime,
                   magnitudeCache, circuitState, consecFailures>>
    /\ UNCHANGED notBreakerVars

\* Time passes.
Tick(t) ==
    /\ NoReturnPending
    /\ t > now
    /\ now' = t
    /\ UNCHANGED <<circuitBreakerFailures, circuitBreakerLastFailTime, magnitudeCache,
                   calls, circuitState, consecFailures>>
    /\ UNCHANGED notBreakerVars

----------------------------------------------------------------------------
(* DirectionsSidebar.tsx: initial component state *)

RouteInit ==
    /\ originCoord = Null
    /\ destCoord = Null
    /\ loading = FALSE
    /\ routes = <<>>
    /\ selectedRouteIndex = 0
    /\ rerouteInfo = Null
    /\ mapLayers = {}
    /\ routePc = "idle"
    /\ predictResult = Null

BreakerInit ==
    /\ now = StartTime
    /\ circuitBreakerFailures = 0
    /\ circuitBreakerLastFailTime = 0
    /\ magnitudeCache = {}
    /\ calls = [c \in Calls |-> IdleCall]
    /\ circuitState = "closed"
    /\ consecFailures = 0

\* no enrichment has been called yet
EnrichInit ==
    /\ enrichFn = "none"
    /\ crashes = <<>>
    /\ count = 0
    /\ enhancedFeatures = <<>>
    /\ promises = <<>>
    /\ batchStart = 0
    /\ enrichPc = "idle"
    /\ successfulPredictions = 0

\* no record, density list or polyline is being evaluated
ScoreIdle ==
    /\ crash = Null
    /\ magnitude = 0
    /\ libFeatures = <<>>
    /\ appFeatures = <<>>
    /\ scorePc = "idle"
GradientIdle ==
    /\ segmentDensities = <<>>
    /\ scale = 1
    /\ stops = <<>>
    /\ scaledStops = <<>>
    /\ gradientPc = "idle"
DensityIdle ==
    /\ routeCoordinates = <<>>
    /\ crashData = <<>>
    /\ densities = <<>>
    /\ densityPc = "idle"

\* ---- the map page at rest ----
HookIdle ==
    /\ yearFilter = "2025"
    /\ data = <<>>
    /\ crashLoading = FALSE
    /\ error = FALSE
    /\ pagination = Null
    /\ requests = {}
    /\ issued = 0
StoreIdle ==
    /\ collection = <<>>
    /\ storeUp = TRUE
    /\ pageResponse = Null
    /\ nearbyResponse = Null
    /\ storePc = "idle"
ClickIdle ==
    /\ isOriginMapPicking = FALSE
    /\ isDestMapPicking = FALSE
    /\ isMapPickingMode = FALSE
    /\ activeData = <<>>
    /\ network = "up"
    /\ pendingClicks = {}
    /\ delivered = Null
    /\ clicks = 0
PopupIdle ==
    /\ popup = Null
    /\ popupVisible = FALSE
    /\ frames = 0
    /\ removals = 0
    /\ isHovered = FALSE
    /\ timeLeft = autoDismissMs
    /\ aiDataLoaded = FALSE
    /\ apiData = Null
    /\ apiError = FALSE
    /\ apiLoading = FALSE
    /\ fetchTimer = Null
    /\ fetches = {}
    /\ dismissals = 0
    /\ created = 0
    /\ closedPopups = {}
    /\ settledPopups = {}
UiIdle == HookIdle /\ StoreIdle /\ ClickIdle /\ PopupIdle
RestButHook ==
    /\ BreakerInit /\ RouteInit /\ EnrichInit
    /\ ScoreIdle /\ GradientIdle /\ DensityIdle
    /\ StoreIdle /\ ClickIdle /\ PopupIdle
RestButStore ==
    /\ BreakerInit /\ RouteInit /\ EnrichInit
    /\ ScoreIdle /\ GradientIdle /\ DensityIdle
    /\ HookIdle /\ ClickIdle /\ PopupIdle
RestButClick ==
    /\ BreakerInit /\ RouteInit /\ EnrichInit
    /\ ScoreIdle /\ GradientIdle /\ DensityIdle
    /\ HookIdle /\ StoreIdle /\ PopupIdle
RestButPopup ==
    /\ BreakerInit /\ RouteInit /\ EnrichInit
    /\ ScoreIdle /\ GradientIdle /\ DensityIdle
    /\ HookIdle /\ StoreIdle /\ ClickIdle
\* ---- end of the map page at rest ----

Init ==
    /\ BreakerInit /\ RouteInit /\ EnrichInit
    /\ ScoreIdle /\ GradientIdle /\ DensityIdle
    /\ UiIdle


Next ==
    \/ \E c \in Calls, lat \in Lats, lon \in Lons : GetCachedCrashMagnitude(c, lat, lon)
    \/ \E c \in Calls : FetchThrows(c)
    \/ \E c \in Calls : FetchNotOk(c)
    \/ \E c \in Calls : FetchOk(c)
    \/ \E c \in Calls : JsonThrows(c)
    \/ \E c \in Calls, fmt \in Formats, p \in Predictions : JsonParsed(c, fmt, p)
    \/ \E c \in Calls : JsonUnexpected(c)
    \/ \E c \in Calls : JsonNull(c)
    \/ \E c \in Calls : Return(c)
    \/ \E t \in Instants : Tick(t)

Spec == Init /\ [][Next]_vars

(***************************************************************************)
(* DirectionsSidebar.tsx: handleGetRoute, route selection, handleClear     *)
(***************************************************************************)
\* Candidate routes of the routing provider: duration (s), distance (m) and,
\* per vertex of the geometry, the severityScore that calculateRouteCrashDensity
\* accumulates there from the crashes within the search radius.
FastRoute == [duration |-> 600, distance |-> 5000, severityScores |-> <<20, 10>>]
SafeRoute == [duration |-> 700, distance |-> 5200, severityScores |-> <<0, 2, 0>>]
EqualRiskRoute == [duration |-> 650, distance |-> 5100, severityScores |-> <<15, 15>>]
Candidates == {FastRoute, SafeRoute, EqualRiskRoute}

\* data.routes of a response of the directions API: the candidates by
\* ascending duration, none when no route is found
RoutesOfLen(n) ==
    {rs \in [1..n -> Candidates] : \A i \in 1..(n - 1) : rs[i].duration < rs[i + 1].duration}
DirectionsResponses == UNION {RoutesOfLen(n) : n \in 0..MaxRoutes}

\* [lng, lat] pairs the geocoder or a map click can deliver
Places == {[lng |-> -770365000, lat |-> 389072000], [lng |-> -770091000, lat |-> 388977000]}

\* results of callPredictEndpoint: null on any failure, else the response body
PredictResults ==
    {Null, [reroute_needed |-> FALSE, path |-> FALSE], [reroute_needed |-> TRUE, path |-> TRUE],
     [reroute_needed |-> TRUE, path |-> FALSE]}

\* layer ids of renderMultipleRoutes
Layer(id) == [id |-> id, index |-> 0, outline |-> FALSE]
LayerId(index) ==
    IF index = 0 THEN Layer("directions-line")
    ELSE [id |-> "route-line", index |-> index, outline |-> FALSE]
OutlineLayerId(index) == [LayerId(index) EXCEPT !.outline = TRUE]

\* removeRouteFromMap(map)
removeRouteFromMap(layers) ==
    layers \ ({LayerId(0), OutlineLayerId(0), Layer("directions-points"),
               Layer("alternate-route-line")}
              \cup {LayerId(i) : i \in 1..2} \cup {OutlineLayerId(i) : i \in 1..2})

\* renderMultipleRoutes(map, routes, selectedIndex): one line layer per route,
\* an outline layer under the selected one only
renderMultipleRoutes(layers, rs, selectedIndex) ==
    ((layers \cup {LayerId(i) : i \in 0..(Len(rs) - 1)})
        \ {OutlineLayerId(i) : i \in (0..(Len(rs) - 1)) \ {selectedIndex}})
    \cup {OutlineLayerId(i) : i \in (0..(Len(rs) - 1)) \cap {selectedIndex}}

\* setOriginCoord / setDestCoord from a suggestion or a map click
SetOriginCoord(p) ==
    /\ originCoord' = p
    /\ UNCHANGED <<destCoord, loading, routes, selectedRouteIndex, rerouteInfo,
                   mapLayers, routePc, predictResult>>
    /\ UNCHANGED notRouteVars

SetDestCoord(p) ==
    /\ destCoord' = p
    /\ UNCHANGED <<originCoord, loading, routes, selectedRouteIndex, rerouteInfo,
                   mapLayers, routePc, predictResult>>
    /\ UNCHANGED notRouteVars

\* handleGetRoute up to `await callPredictEndpoint(o, d)`; the button is
\* disabled while loading
HandleGetRoute ==
    /\ ~loading
    /\ routePc = "idle"
    /\ originCoord # Null /\ destCoord # Null
    /\ loading' = TRUE
    /\ routePc' = "predict"
    /\ UNCHANGED <<originCoord, destCoord, routes, selectedRouteIndex, rerouteInfo,
                   mapLayers, predictResult>>
    /\ UNCHANGED notRouteVars

\* callPredictEndpoint settles (it never throws); fetchRoute is started
PredictSettles(res) ==
    /\ routePc = "predict"
    /\ predictResult' = res
    /\ routePc' = "directions"
    /\ UNCHANGED <<originCoord, destCoord, loading, routes, selectedRouteIndex,
                   rerouteInfo, mapLayers>>
    /\ UNCHANGED notRouteVars

\* fetchRoute throws (network error or a response that is not ok): alert, finally
DirectionsThrows ==
    /\ routePc = "directions"
    /\ routePc' = "idle"
    /\ loading' = FALSE
    /\ UNCHANGED <<originCoord, destCoord, routes, selectedRouteIndex, rerouteInfo,
                   mapLayers, predictResult>>
    /\ UNCHANGED notRouteVars

\* fetchRoute resolves with data.routes = allRoutes: the rest of handleGetRoute
DirectionsResolves(allRoutes) ==
    /\ routePc = "directions"
    /\ routePc' = "idle"
    /\ loading' = FALSE
    /\ IF Len(allRoutes) = 0
       THEN UNCHANGED <<routes, selectedRouteIndex, rerouteInfo, mapLayers>>
       ELSE LET shouldShowAlternate ==
                    /\ predictResult # Null
                    /\ predictResult.reroute_needed
                    /\ predictResult.path
                cleared == removeRouteFromMap(mapLayers)
                withAlternate == IF shouldShowAlternate
                                 THEN cleared \cup {Layer("alternate-route-line")}
                                 ELSE cleared \ {Layer("alternate-route-line")}
            IN  /\ routes' = allRoutes
                /\ selectedRouteIndex' = 0
                /\ rerouteInfo' = IF shouldShowAlternate THEN predictResult ELSE Null
                /\ mapLayers' = renderMultipleRoutes(withAlternate, allRoutes, 0)
                                    \cup {Layer("directions-points")}
    /\ UNCHANGED <<originCoord, destCoord, predictResult>>
    /\ UNCHANGED notRouteVars

\* a click on a route line or on a route of the list
SelectRoute(index) ==
    /\ index \in 0..(Len(routes) - 1)
    /\ LayerId(index) \in mapLayers
    /\ selectedRouteIndex' = index
    /\ mapLayers' = renderMultipleRoutes(mapLayers, routes, index)
    /\ UNCHANGED <<originCoord, destCoord, loading, routes, rerouteInfo, routePc,
                   predictResult>>
    /\ UNCHANGED notRouteVars

\* handleClear
HandleClear ==
    /\ mapLayers' = removeRouteFromMap(mapLayers)
    /\ originCoord' = Null
    /\ destCoord' = Null
    /\ rerouteInfo' = Null
    /\ routes' = <<>>
    /\ selectedRouteIndex' = 0
    /\ UNCHANGED <<loading, routePc, predictResult>>
    /\ UNCHANGED notRouteVars

RouteNext ==
    \/ \E p \in Places : SetOriginCoord(p)
    \/ \E p \in Places : SetDestCoord(p)
    \/ HandleGetRoute
    \/ \E res \in PredictResults : PredictSettles(res)
    \/ DirectionsThrows
    \/ \E allRoutes \in DirectionsResponses : DirectionsResolves(allRoutes)
    \/ \E index \in 0..(MaxRoutes - 1) : SelectRoute(index)
    \/ HandleClear

SpecRoute == Init /\ [][RouteNext]_vars

\* the routing provider answers every request it is sent (fetchRoute settles);
\* the fetch of callPredictEndpoint carries no signal and no deadline, so
\* nothing makes a silent prediction service settle it
FetchRouteSettles ==
    \/ DirectionsThrows
    \/ \E allRoutes \in DirectionsResponses : DirectionsResolves(allRoutes)
FairSpecRoute == SpecRoute /\ WF_vars(FetchRouteSettles)

----------------------------------------------------------------------------
(* C1 *)

\* calculateRouteCrashDensity: density = Math.min(1, severityScore / 20),
\* here in twentieths
Density(severityScore) == IF severityScore > 20 THEN 20 ELSE severityScore

RECURSIVE SumDensities(_)
SumDensities(scores) ==
    IF scores = <<>> THEN 0 ELSE Density(Head(scores)) + SumDensities(Tail(scores))

\* length-normalised risk of a candidate: the sum of its densities over the
\* number of its vertices; two of them are compared by cross-multiplication
LowerRisk(a, b) ==
    SumDensities(a.severityScores) * Len(b.severityScores)
        < SumDensities(b.severityScores) * Len(a.severityScores)
SameRisk(a, b) == ~LowerRisk(a, b) /\ ~LowerRisk(b, a)
Preferred(a, b) == LowerRisk(a, b) \/ (SameRisk(a, b) /\ a.duration < b.duration)
IsRecommended(rs, index) == \A j \in 1..Len(rs) : ~Preferred(rs[j], rs[index + 1])

\* C1: whenever handleGetRoute presents a new list of candidate routes, the
\* route it marks as selected is one with the lowest length-normalised risk,
\* ties broken by the shorter duration; the first (fastest) candidate is the
\* default selection only when it satisfies that rule.
C1_LowestRiskSelected ==
    [][(routes' # routes /\ routes' # <<>>)
          => IsRecommended(routes', selectedRouteIndex')]_vars

----------------------------------------------------------------------------
(* Steps of a call, as seen in one transition *)

Starts(c) == calls[c].pc = "idle" /\ calls'[c].pc # "idle"
\* the call passes the circuit check and calls fetch: a network request
Issues(c) == calls[c].pc # "fetching" /\ calls'[c].pc = "fetching"
ShortCircuited(c) ==
    /\ Starts(c)
    /\ calls'[c].pc = "done" /\ calls'[c].outcome = "open" /\ calls'[c].result = Null
Fails(c) ==
    /\ calls[c].pc \in {"fetching", "json"}
    /\ calls'[c].pc = "done" /\ calls'[c].outcome = "failed"
Succeeds(c) ==
    /\ calls[c].pc = "json"
    /\ calls'[c].pc = "done" /\ calls'[c].outcome \in {"ok", "badformat"}

\* the started call finds no entry younger than CACHE_DURATION under its key
StartsOnMiss(c) ==
    /\ Starts(c)
    /\ \A e \in magnitudeCache :
          e.key = calls'[c].key => now - e.timestamp >= CACHE_DURATION

\* the counter is at the threshold and the last failure is no older than the cool-down
WithinCoolDown == now - circuitBreakerLastFailTime <= CIRCUIT_BREAKER_RESET_TIME
CircuitOpen == circuitBreakerFailures >= CIRCUIT_BREAKER_THRESHOLD /\ WithinCoolDown

----------------------------------------------------------------------------
(* C2 *)

\* C2 as stated: counting the failed calls since the last success, the
\* circuit is closed after the 1st and the 2nd and open after the 3rd, and
\* the next call within the cool-down of the last failure is short-circuited.
C2_AsStated ==
    [][\A c \in Calls :
         /\ Fails(c) /\ consecFailures' < CIRCUIT_BREAKER_THRESHOLD
               => circuitBreakerFailures' < CIRCUIT_BREAKER_THRESHOLD
         /\ Fails(c) /\ consecFailures' = CIRCUIT_BREAKER_THRESHOLD
               => circuitBreakerFailures' >= CIRCUIT_BREAKER_THRESHOLD
         /\ StartsOnMiss(c) /\ consecFailures < CIRCUIT_BREAKER_THRESHOLD => Issues(c)
         /\ StartsOnMiss(c) /\ consecFailures = CIRCUIT_BREAKER_THRESHOLD /\ WithinCoolDown
               => ShortCircuited(c)]_vars

\* C2, amended: the circuit is closed while the failure counter is below
\* CIRCUIT_BREAKER_THRESHOLD and open as soon as a failure brings it to the
\* threshold (the next call within the cool-down returns null without a
\* request); each failure adds 1 to the counter, but a call that starts
\* more than CIRCUIT_BREAKER_RESET_TIME after the last failure first puts
\* the counter back to 0, so the counter never exceeds the number of
\* consecutive failures and can be below it.
C2_ThresholdOpens ==
    [][\A c \in Calls :
         /\ StartsOnMiss(c) /\ circuitBreakerFailures < CIRCUIT_BREAKER_THRESHOLD => Issues(c)
         /\ StartsOnMiss(c) /\ circuitBreakerFailures >= CIRCUIT_BREAKER_THRESHOLD
                            /\ WithinCoolDown
               => ShortCircuited(c) /\ ~Issues(c)
         /\ StartsOnMiss(c) /\ ~WithinCoolDown => circuitBreakerFailures' = 0 /\ Issues(c)
         /\ Fails(c) => /\ circuitBreakerFailures' = circuitBreakerFailures + 1
                        /\ circuitBreakerLastFailTime' = now
         /\ consecFailures' < CIRCUIT_BREAKER_THRESHOLD
               => circuitBreakerFailures' <= consecFailures']_vars

\* a call has just been short-circuited right after the third failure in a row
C2_Witness ==
    \E c \in Calls :
        /\ calls[c].pc = "done" /\ calls[c].outcome = "open" /\ calls[c].result = Null
        /\ circuitBreakerFailures = CIRCUIT_BREAKER_THRESHOLD
        /\ consecFailures = CIRCUIT_BREAKER_THRESHOLD
        /\ circuitBreakerLastFailTime = now

----------------------------------------------------------------------------
(* C3 *)

\* C3 as stated: from the breaker-opened event until the cool-down of the
\* last failure has elapsed, no call issues a network request.
C3_NoRequestWhileOpen ==
    [][\A c \in Calls : Issues(c) => ~(circuitState = "open" /\ WithinCoolDown)]_vars

----------------------------------------------------------------------------
(* C4 *)

\* C4 as stated: once the cool-down has elapsed on an open circuit the next
\* call is attempted; while that probe is out, a success leaves the counter
\* at 0 and a failure leaves the circuit open, its cool-down starting at
\* that failure.
C4_ProbeOutcome ==
    [][\A c \in Calls :
         /\ StartsOnMiss(c) /\ circuitBreakerFailures >= CIRCUIT_BREAKER_THRESHOLD
                            /\ ~WithinCoolDown
               => Issues(c)
         /\ circuitState = "half-open" /\ Succeeds(c) => circuitBreakerFailures' = 0
         /\ circuitState = "half-open" /\ Fails(c)
               => /\ circuitBreakerFailures' >= CIRCUIT_BREAKER_THRESHOLD
                  /\ circuitBreakerLastFailTime' = now]_vars

----------------------------------------------------------------------------
(* C5 *)

\* C5: with the counter at or above the threshold and the last failure at
\* t, a call at t + CIRCUIT_BREAKER_RESET_TIME - 1 is short-circuited (no
\* request) and a call at t + CIRCUIT_BREAKER_RESET_TIME + 1 is attempted.
C5_CoolDownBoundary ==
    [][\A c \in Calls :
         StartsOnMiss(c) /\ circuitBreakerFailures >= CIRCUIT_BREAKER_THRESHOLD =>
            /\ now = circuitBreakerLastFailTime + CIRCUIT_BREAKER_RESET_TIME - 1
                  => ShortCircuited(c) /\ ~Issues(c)
            /\ now = circuitBreakerLastFailTime + CIRCUIT_BREAKER_RESET_TIME + 1
                  => Issues(c)]_vars

\* a call is out that started one millisecond past the cool-down of an open circuit
C5_Witness ==
    \E c \in Calls :
        /\ calls[c].pc = "fetching"
        /\ circuitState = "half-open"
        /\ now = circuitBreakerLastFailTime + CIRCUIT_BREAKER_RESET_TIME + 1

\* a call has been short-circuited one millisecond before the cool-down ends
C5_WitnessBefore ==
    \E c \in Calls :
        /\ calls[c].pc = "done" /\ calls[c].outcome = "open"
        /\ now = circuitBreakerLastFailTime + CIRCUIT_BREAKER_RESET_TIME - 1

----------------------------------------------------------------------------
(* C6 *)

\* C6: a failed call adds exactly 1 to the failure counter, a successful
\* call leaves it at 0.
C6_CounterSteps ==
    [][\A c \in Calls :
         /\ Fails(c) => circuitBreakerFailures' = circuitBreakerFailures + 1
         /\ Succeeds(c) => circuitBreakerFailures' = 0]_vars

\* a call has just succeeded after a failure recorded at this very instant
\* (so no cool-down reset lies between them), and the counter is 0
C6_Witness ==
    \E c \in Calls :
        /\ calls[c].pc = "done" /\ calls[c].outcome = "ok"
        /\ circuitBreakerLastFailTime = now
        /\ circuitBreakerFailures = 0

----------------------------------------------------------------------------
(* C7 *)

\* rounding to 6 decimal places, on 1e-7 degree integers
Round6(x) == IF x < 0 THEN 0 - ((5 - x) \div 10) ELSE (x + 5) \div 10

\* coordinates that are equal after rounding have the same cache key, and only they
SameKeyIffSameRounding ==
    \A lat1 \in Lats, lat2 \in Lats, lon1 \in Lons, lon2 \in Lons :
        (Round6(lat1) = Round6(lat2) /\ Round6(lon1) = Round6(lon2))
            <=> getCacheKey(lat1, lon1) = getCacheKey(lat2, lon2)

ServedFrom(c, e) ==
    /\ calls'[c].pc = "done" /\ calls'[c].outcome = "cache"
    /\ calls'[c].result = [prediction |-> e.prediction]
    /\ ~Issues(c)

\* C7 as stated: a call whose key has an entry stored at t is served that
\* entry before t + CACHE_DURATION and issues a fresh fetch from then on.
C7_AsStated ==
    [][\A c \in Calls : Starts(c) =>
         \A e \in magnitudeCache : e.key = calls'[c].key =>
            IF now < e.timestamp + CACHE_DURATION THEN ServedFrom(c, e) ELSE Issues(c)]_vars

\* C7, amended: coordinates that are equal after rounding to 6 decimal
\* places share one cache key; a call whose key has an entry stored at t is
\* served that entry without a request before t + CACHE_DURATION, and from
\* t + CACHE_DURATION on it is a cache miss: it issues a fresh fetch unless
\* the circuit is open, in which case it returns null without a request.
C7_CacheWindow ==
    [][/\ SameKeyIffSameRounding
       /\ \A c \in Calls : Starts(c) =>
            \A e \in magnitudeCache : e.key = calls'[c].key =>
               IF now < e.timestamp + CACHE_DURATION THEN ServedFrom(c, e)
               ELSE IF CircuitOpen THEN ShortCircuited(c) /\ ~Issues(c)
               ELSE Issues(c)]_vars

\* a call is served from the cache one millisecond before its entry expires
C7_Witness ==
    \E c \in Calls : \E e \in magnitudeCache :
        /\ calls[c].pc = "done" /\ calls[c].outcome = "cache"
        /\ e.key = calls[c].key /\ calls[c].result = [prediction |-> e.prediction]
        /\ now = e.timestamp + CACHE_DURATION - 1

----------------------------------------------------------------------------
(* C8 *)

\* C8: what getCachedCrashMagnitude returns is an entry younger than
\* CACHE_DURATION, a prediction fetched by this call, or null: a failed or
\* short-circuited call returns null whatever the cache holds.
C8_NoStalePrediction ==
    \A c \in Calls : calls[c].pc = "done" =>
        /\ calls[c].outcome \in {"cache", "ok", "open", "failed", "badformat", "nullbody"}
        /\ calls[c].outcome = "cache" =>
              \E e \in magnitudeCache :
                  /\ e.key = calls[c].key
                  /\ calls[c].result = [prediction |-> e.prediction]
                  /\ now - e.timestamp < CACHE_DURATION
        /\ calls[c].outcome = "ok" =>
              \E e \in magnitudeCache :
                  /\ e.key = calls[c].key
                  /\ calls[c].result = [prediction |-> e.prediction]
                  /\ e.timestamp = now
        /\ calls[c].outcome \in {"open", "failed", "badformat", "nullbody"}
              => calls[c].result = Null

\* a call whose entry has expired is short-circuited by the open circuit
C8_Witness ==
    \E c \in Calls : \E e \in magnitudeCache :
        /\ calls[c].pc = "done" /\ calls[c].outcome = "open" /\ calls[c].result = Null
        /\ e.key = calls[c].key
        /\ now - e.timestamp >= CACHE_DURATION

\* a call whose entry has expired refetches and fails
C8_WitnessFailed ==
    \E c \in Calls : \E e \in magnitudeCache :
        /\ calls[c].pc = "done" /\ calls[c].outcome = "failed" /\ calls[c].result = Null
        /\ e.key = calls[c].key
        /\ now - e.timestamp >= CACHE_DURATION

----------------------------------------------------------------------------
(* C9 *)

\* C9: a call that finds an entry younger than CACHE_DURATION is served it,
\* whatever the state of the breaker, and changes neither the failure
\* counter nor the last-failure time.
C9_CacheHitLeavesBreaker ==
    [][\A c \in Calls : Starts(c) =>
         \A e \in magnitudeCache :
            e.key = calls'[c].key /\ now - e.timestamp < CACHE_DURATION =>
               /\ ServedFrom(c, e)
               /\ circuitBreakerFailures' = circuitBreakerFailures
               /\ circuitBreakerLastFailTime' = circuitBreakerLastFailTime]_vars

\* a call has just been served from the cache while the circuit is open
C9_Witness ==
    \E c \in Calls :
        /\ calls[c].pc = "done" /\ calls[c].outcome = "cache"
        /\ CircuitOpen

----------------------------------------------------------------------------
(* C10 *)

\* C10: a call issues a request only as it starts (so at most one); the
\* cache holds at most one entry per key, and an entry changes only when a
\* call of that key gets an answer, to that answer's prediction.
C10_ConcurrentMisses ==
    [][/\ \A c \in Calls : Issues(c) => Starts(c)
       /\ \A e1 \in magnitudeCache', e2 \in magnitudeCache' : e1.key = e2.key => e1 = e2
       /\ \A e \in magnitudeCache' : e \notin magnitudeCache =>
             \E c \in Calls :
                /\ calls[c].pc = "json" /\ calls[c].key = e.key
                /\ calls'[c].pc = "done" /\ calls'[c].outcome = "ok"
                /\ calls'[c].result = [prediction |-> e.prediction]
                /\ e.timestamp = now
       /\ \A e \in magnitudeCache : \E e2 \in magnitudeCache' : e2.key = e.key]_vars

\* two calls missed on the same key; one has stored its answer while the
\* other is still out
C10_Witness ==
    \E c1 \in Calls, c2 \in Calls : \E e \in magnitudeCache :
        /\ c1 # c2 /\ calls[c1].key = calls[c2].key
        /\ calls[c1].pc \in {"fetching", "json"}
        /\ calls[c2].pc = "done" /\ calls[c2].outcome = "ok"
        /\ e.key = calls[c2].key /\ calls[c2].result = [prediction |-> e.prediction]

----------------------------------------------------------------------------
\* C13: a prediction service that fails or never answers does not block the
\* route display: a handleGetRoute started with both endpoints set, whose
\* routing provider answers, eventually finishes with the loading flag cleared
\* (and the provider's routes rendered when it returned any).
HandlerFinished == routePc = "idle" /\ ~loading
C13_PredictionNeverBlocks == (routePc = "predict") ~> HandlerFinished

\* the failing half of the claim: a failed prediction (null) still lets the
\* provider's routes be rendered
C13_FailedPredictionRenders ==
    /\ predictResult = Null
    /\ HandlerFinished
    /\ Len(routes) > 0
    /\ \A i \in 0..(Len(routes) - 1) : LayerId(i) \in mapLayers

----------------------------------------------------------------------------
(* C14 *)

\* C14: a call that passed the circuit check has recorded exactly one breaker
\* outcome when it returns: one failure (and it returns null) when the fetch
\* or the parsing failed, one success when an OK response was parsed; never
\* both and never neither.
C14_ExactlyOneOutcome ==
    \A c \in Calls :
        calls[c].pc = "done" /\ calls[c].outcome \notin {"cache", "open"} =>
            \/ calls[c].recorded = <<"failure">> /\ calls[c].result = Null
            \/ calls[c].recorded = <<"success">>

----------------------------------------------------------------------------
(* app/lib/mapUtils.ts: batched enrichment with predictions *)

BATCH_SIZE_CRASHES == 10
BATCH_SIZE_POINTS == 20

Min(a, b) == IF a < b THEN a ELSE b
Max(a, b) == IF a > b THEN a ELSE b

\* The k-th crash record of an input list: records that differ in their
\* position, their counts and so their local magnitude.
CrashAt(k) ==
    [id |-> k, latitude |-> 389000000 + k, longitude |-> -770000000,
     totalVehicles |-> 1 + (k % 3), totalPedestrians |-> 0, totalBicycles |-> 0,
     fatalDriver |-> k % 2, fatalPedestrian |-> 0, fatalBicyclist |-> 0,
     majorInjuriesDriver |-> (k \div 2) % 2, majorInjuriesPedestrian |-> 0,
     majorInjuriesBicyclist |-> 0, speedingInvolved |-> 0]

\* Input lists: empty, one crash, one batch and a rest.
CrashLists == {[k \in 1..n |-> CrashAt(k)] : n \in {0, 1, MaxCrashes}}
PointCounts == {0, 1, MaxPoints}

\* convertCrashDataToGeoJSON of app/lib/mapUtils.ts (l.122-157)
fallbackSeverityScore(c) ==
    Max(1, (c.fatalDriver + c.fatalPedestrian + c.fatalBicyclist) * 3
           + (c.majorInjuriesDriver + c.majorInjuriesPedestrian
              + c.majorInjuriesBicyclist) * 2
           + (c.totalVehicles + c.totalPedestrians + c.totalBicycles))
convertCrashDataToGeoJSON(cs) ==
    [k \in 1..Len(cs) |->
        [crashData |-> cs[k].id, mag |-> Min(6, fallbackSeverityScore(cs[k])),
         aiPredicted |-> FALSE]]

\* Math.round on a number given in tenths
MathRound(tenths) == (tenths + 5) \div 10
\* l.184: Math.max(1, Math.min(10, Math.round(prediction.prediction)))
aiMagnitude(tenths) == Max(1, Min(10, MathRound(tenths)))

\* numeric predictions the service gives, in tenths (12.4)
NumericPredictions == {124}

\* the loop of l.173 / l.301: the items of the batch that starts at index i
\* (items are numbered from 1 here, featureIndex + 1)
BatchSize == IF enrichFn = "points" THEN BATCH_SIZE_POINTS ELSE BATCH_SIZE_CRASHES
ItemCount == IF enrichFn = "points" THEN count ELSE Len(crashes)
BatchEndOneMore(i, size, n) == Min(i + size + 1, n)
BatchEnd(i, size, n) == Min(i + size, n)
BatchItems(i, size, n) == (i + 1)..BatchEnd(i, size, n)
\* l.176: const featureIndex = i + batchIndex
featureIndexInBatch(i, batchIndex) == batchIndex
featureIndex(i, batchIndex) == i + batchIndex

\* batch.map(async ...) starts one call per item of the batch
StartBatch(ps, i, size, n) ==
    [k \in 1..n |-> IF k \in BatchItems(i, size, n) THEN "pending" ELSE ps[k]]

\* convertCrashDataToGeoJSONWithAI(crashes) up to its first await (l.162-204)
ConvertCrashDataToGeoJSONWithAI(cs) ==
    /\ enrichPc = "idle"
    /\ enrichFn' = "crashes"
    /\ crashes' = cs
    /\ enhancedFeatures' = convertCrashDataToGeoJSON(cs)
    /\ successfulPredictions' = 0
    /\ batchStart' = 0
    /\ promises' = StartBatch([k \in 1..Len(cs) |-> "none"], 0, BATCH_SIZE_CRASHES, Len(cs))
    /\ enrichPc' = IF Len(cs) > 0 THEN "batch" ELSE "done"
    /\ UNCHANGED count
    /\ UNCHANGED notEnrichVars

\* generateDCPointsWithAI(count) up to its first await (l.274-313)
GenerateDCPointsWithAI(n) ==
    /\ enrichPc = "idle"
    /\ enrichFn' = "points"
    /\ count' = n
    /\ successfulPredictions' = 0
    /\ batchStart' = 0
    /\ promises' = StartBatch([k \in 1..n |-> "none"], 0, BATCH_SIZE_POINTS, n)
    /\ enrichPc' = IF n > 0 THEN "batch" ELSE "done"
    /\ UNCHANGED <<crashes, enhancedFeatures>>
    /\ UNCHANGED notEnrichVars

\* The call of item j settles without a usable prediction: the async callback
\* of l.175-202 returns false and leaves enhancedFeatures alone.
KeepLocalMagnitude(j) ==
    /\ enrichPc = "batch"
    /\ j \in DOMAIN promises /\ promises[j] = "pending"
    /\ promises' = [promises EXCEPT ![j] = "false"]
    /\ UNCHANGED <<enrichFn, crashes, count, enhancedFeatures, batchStart, enrichPc,
                   successfulPredictions>>
    /\ UNCHANGED notEnrichVars

\* getCachedCrashMagnitude resolved with null (failed, short-circuited or
\* unexpected answer): l.182 is false
PredictionUnavailable(j) ==
    /\ enrichFn = "crashes"
    /\ KeepLocalMagnitude(j)

\* it resolved with a prediction whose prediction field is not a number
\* (format { prediction: { prediction: "high" } }): l.182 is false
PredictionNonNumeric(j) ==
    /\ enrichFn = "crashes"
    /\ KeepLocalMagnitude(j)

\* it rejected (crash.latitude is not a number, toFixed throws): the catch of l.197
PredictionThrows(j) ==
    /\ enrichFn = "crashes"
    /\ KeepLocalMagnitude(j)

\* it resolved with a numeric prediction: l.184-195
PredictionNumeric(j, tenths) ==
    /\ enrichFn = "crashes" /\ enrichPc = "batch"
    /\ j \in DOMAIN promises /\ promises[j] = "pending"
    /\ LET at == featureIndex(batchStart, j - 1 - batchStart) + 1
       IN enhancedFeatures' = [enhancedFeatures EXCEPT
              ![at] = [@ EXCEPT !.mag = aiMagnitude(tenths), !.aiPredicted = TRUE]]
    /\ promises' = [promises EXCEPT ![j] = "true"]
    /\ UNCHANGED <<enrichFn, crashes, count, batchStart, enrichPc, successfulPredictions>>
    /\ UNCHANGED notEnrichVars

\* generateDCPointsWithAI: the call of location j settles (l.303-311).  The
\* calls of a batch settle in any order, but the function reads what they
\* carry by index and only once Promise.allSettled has resolved (l.313-320):
\* the order is not observable to it, and the calls settle in index order here.
PointPredictionSettles(j) ==
    /\ enrichFn = "points" /\ enrichPc = "batch"
    /\ j \in DOMAIN promises /\ promises[j] = "pending"
    /\ \A k \in 1..(j - 1) : promises[k] # "pending"
    /\ promises' = [promises EXCEPT ![j] = "settled"]
    /\ UNCHANGED <<enrichFn, crashes, count, enhancedFeatures, batchStart, enrichPc,
                   successfulPredictions>>
    /\ UNCHANGED notEnrichVars

\* Promise.allSettled(batchPromises) resolves (l.204-210 / l.313-325): the
\* successes are counted; a further batch waits for the timer, else the loop
\* ends and the function returns.
BatchSettled ==
    /\ enrichPc = "batch"
    /\ \A j \in DOMAIN promises : promises[j] # "pending"
    /\ successfulPredictions' = successfulPredictions
          + Cardinality({j \in BatchItems(batchStart, BatchSize, ItemCount) :
                           promises[j] = "true"})
    /\ enrichPc' = IF batchStart + BatchSize < ItemCount THEN "delay" ELSE "done"
    /\ UNCHANGED <<enrichFn, crashes, count, enhancedFeatures, promises, batchStart>>
    /\ UNCHANGED notEnrichVars

\* the timer of l.209 / l.324 fires: i += BATCH_SIZE and the next batch starts
DelayElapsed ==
    /\ enrichPc = "delay"
    /\ batchStart' = batchStart + BatchSize
    /\ promises' = StartBatch(promises, batchStart + BatchSize, BatchSize, ItemCount)
    /\ enrichPc' = "batch"
    /\ UNCHANGED <<enrichFn, crashes, count, enhancedFeatures, successfulPredictions>>
    /\ UNCHANGED notEnrichVars

EnrichNext ==
    \/ \E cs \in CrashLists : ConvertCrashDataToGeoJSONWithAI(cs)
    \/ \E j \in 1..MaxCrashes : PredictionUnavailable(j)
    \/ \E j \in 1..MaxCrashes : PredictionNonNumeric(j)
    \/ \E j \in 1..MaxCrashes : PredictionThrows(j)
    \/ \E j \in 1..MaxCrashes, p \in NumericPredictions : PredictionNumeric(j, p)
    \/ BatchSettled
    \/ DelayElapsed

SpecEnrich == Init /\ [][EnrichNext]_vars

\* every call settles (a fetch is aborted after 10 s) and every timer fires
FairSpecEnrich == SpecEnrich /\ WF_vars(EnrichNext)

BatchNext ==
    \/ EnrichNext
    \/ \E n \in PointCounts : GenerateDCPointsWithAI(n)
    \/ \E j \in 1..MaxPoints : PointPredictionSettles(j)

SpecBatch == Init /\ [][BatchNext]_vars

----------------------------------------------------------------------------
(* C11 *)

\* the features as convertCrashDataToGeoJSON computes them locally
LocalFeatures == convertCrashDataToGeoJSON(crashes)

\* there is one feature per crash, feature k is the one of crashes[k], and a
\* point without a usable prediction has its local magnitude and aiPredicted = false
FeaturesFollowCrashes ==
    enrichFn = "crashes" =>
        /\ Len(enhancedFeatures) = Len(crashes)
        /\ \A k \in 1..Len(crashes) :
              /\ enhancedFeatures[k].crashData = crashes[k].id
              /\ promises[k] \in {"none", "pending", "false"}
                    => enhancedFeatures[k] = LocalFeatures[k]
              /\ promises[k] = "true"
                    => /\ enhancedFeatures[k].aiPredicted
                       /\ enhancedFeatures[k].mag \in 1..10

\* a prediction that settles touches the feature of its own crash only, and
\* a failed one touches none
SettlingIsLocal ==
    enrichFn = "crashes" /\ enrichPc = "batch" /\ enrichPc' = "batch" =>
        \A k \in 1..Len(crashes) :
            promises'[k] \in {promises[k], "false"}
                => enhancedFeatures'[k] = enhancedFeatures[k]

\* C11: convertCrashDataToGeoJSONWithAI always completes, with exactly one
\* feature per input crash, feature i being derived from crashes[i] whatever
\* order the predictions settle in; a point whose prediction fails, is
\* unavailable or is not a number keeps its local magnitude with
\* aiPredicted = false, and changes no other point's feature.
C11_EnrichmentKeepsOrder ==
    /\ []FeaturesFollowCrashes
    /\ [][SettlingIsLocal]_vars
    /\ (enrichFn = "crashes") ~> (enrichPc = "done")

\* a list of more than one batch is done: the last crash has a prediction,
\* the first one's call failed, a later one of the first batch has a prediction
C11_Witness ==
    /\ enrichFn = "crashes" /\ enrichPc = "done" /\ Len(crashes) = MaxCrashes
    /\ enhancedFeatures[MaxCrashes].aiPredicted
    /\ promises[1] = "false" /\ enhancedFeatures[1] = LocalFeatures[1]
    /\ enhancedFeatures[2].aiPredicted

----------------------------------------------------------------------------
(* C12 *)

InFlight == {j \in DOMAIN promises : promises[j] = "pending"}

\* a step that starts prediction calls
StartsCalls == \E j \in DOMAIN promises' : j \notin InFlight /\ promises'[j] = "pending"

\* C12: during batched enrichment at most BATCH_SIZE prediction calls (10 in
\* convertCrashDataToGeoJSONWithAI, 20 in generateDCPointsWithAI) are in
\* flight at any moment, and the calls of a batch are started only when
\* every call of the batch before has settled.
InFlightAfter == {j \in DOMAIN promises' : promises'[j] = "pending"}

C12_BoundedBatches ==
    [][/\ enrichFn' = "crashes" => Cardinality(InFlightAfter) <= BATCH_SIZE_CRASHES
       /\ enrichFn' = "points" => Cardinality(InFlightAfter) <= BATCH_SIZE_POINTS
       /\ StartsCalls => InFlight = {}]_vars

\* the second batch of generateDCPointsWithAI is in flight, after a first
\* batch of BATCH_SIZE calls that have all settled
C12_Witness ==
    /\ enrichFn = "points" /\ enrichPc = "batch"
    /\ batchStart = BATCH_SIZE_POINTS
    /\ \A j \in 1..BATCH_SIZE_POINTS : promises[j] = "settled"
    /\ promises[MaxPoints] = "pending"

\* all BATCH_SIZE calls of the first batch of convertCrashDataToGeoJSONWithAI
\* are in flight
C12_WitnessFullBatch ==
    /\ enrichFn = "crashes" /\ Cardinality(InFlight) = BATCH_SIZE_CRASHES

(***************************************************************************)
(* lib/mapUtils.ts: calculateTraditionalMagnitude and the two              *)
(* convertCrashDataToGeoJSON (lib/ and app/lib/), applied to one record.   *)
(* Magnitudes of lib/ are in tenths: every term is a multiple of 0.5, and  *)
(* 1.2 times a multiple of 0.5 is a multiple of 0.6, so tenths are exact.  *)
(* (In binary floating point the product by 1.2 is rounded; rounding is    *)
(* monotone and the clamps compare against 1, 6 and 10, none of which a    *)
(* multiple of 0.1 in [0, 12] rounds across.)                              *)
(***************************************************************************)
MaxCasualties == 3      \* fatalities and major injuries of a record, in all
MaxInvolved == 5        \* vehicles, pedestrians and bicycles of a record, in all

RECURSIVE SumTo(_, _)
SumTo(f, n) == IF n = 0 THEN 0 ELSE f[n] + SumTo(f, n - 1)
\* the ways to spread at most bound over n count fields
CountsUpTo(n, bound) == {c \in [1..n -> 0..bound] : SumTo(c, n) <= bound}

\* CrashData records as the crashes API delivers them: counts are numbers
\* >= 0, speedingInvolved is 0 or 1; latitude 0 is a record without a place
CrashRecords(maxCasualties, maxInvolved) ==
    {[id |-> 1, latitude |-> lat, longitude |-> -770000000,
      totalVehicles |-> v[1], totalPedestrians |-> v[2], totalBicycles |-> v[3],
      fatalDriver |-> c[1], fatalPedestrian |-> c[2], fatalBicyclist |-> c[3],
      majorInjuriesDriver |-> c[4], majorInjuriesPedestrian |-> c[5],
      majorInjuriesBicyclist |-> c[6], speedingInvolved |-> sp] :
        c \in CountsUpTo(6, maxCasualties), v \in CountsUpTo(3, maxInvolved),
        sp \in {0, 1}, lat \in {0, 389000000}}

CasualtyFields ==
    {"fatalDriver", "fatalPedestrian", "fatalBicyclist",
     "majorInjuriesDriver", "majorInjuriesPedestrian", "majorInjuriesBicyclist"}

\* l.16, l.20, l.24
fatalities(c) == c.fatalDriver + c.fatalPedestrian + c.fatalBicyclist
majorInjuries(c) ==
    c.majorInjuriesDriver + c.majorInjuriesPedestrian + c.majorInjuriesBicyclist
vehicleCount(c) == c.totalVehicles + c.totalPedestrians + c.totalBicycles

\* l.25: Math.min(vehicleCount - 1, 3) * 0.5, in tenths
vehicleContribution(c) == Min(vehicleCount(c) - 1, 3) * 5

\* l.28-30: magnitude *= 1.2 when speeding was involved (m is a multiple of 5)
speedingFactor(m, c) == IF c.speedingInvolved > 0 THEN (m * 12) \div 10 ELSE m

\* l.33: Math.max(1, Math.min(magnitude, 10)), in tenths
clampMagnitudeNoFloor(m) == Min(m, 100)
clampMagnitudeWrap(m) == Max(10, m % 100)
clampMagnitude(m) == Max(10, Min(m, 100))

calculateTraditionalMagnitude(c) ==
    clampMagnitude(speedingFactor(fatalities(c) * 30 + majorInjuries(c) * 20
                                      + vehicleContribution(c), c))

\* convertCrashDataToGeoJSON of lib/mapUtils.ts (l.39-71): records without a
\* place are dropped, mag is capped at 6 (tenths)
HasPlace(c) == c.latitude # 0 /\ c.longitude # 0
convertCrashDataToGeoJSONLib(cs) ==
    LET kept == SelectSeq(cs, HasPlace)
    IN  [k \in 1..Len(kept) |->
            [crashData |-> kept[k].id,
             mag |-> Min(60, calculateTraditionalMagnitude(kept[k])),
             aiPredicted |-> FALSE]]

CalculateTraditionalMagnitude ==
    /\ scorePc = "input"
    /\ magnitude' = calculateTraditionalMagnitude(crash)
    /\ scorePc' = "scored"
    /\ UNCHANGED <<crash, libFeatures, appFeatures>>
    /\ UNCHANGED <<gradientVars, densityVars>>
    /\ UNCHANGED notPureVars

\* both conversions of the list [crash]
ConvertCrashData ==
    /\ scorePc = "scored"
    /\ libFeatures' = convertCrashDataToGeoJSONLib(<<crash>>)
    /\ appFeatures' = convertCrashDataToGeoJSON(<<crash>>)
    /\ scorePc' = "converted"
    /\ UNCHANGED <<crash, magnitude>>
    /\ UNCHANGED <<gradientVars, densityVars>>
    /\ UNCHANGED notPureVars

InitMagnitude ==
    /\ BreakerInit /\ RouteInit /\ EnrichInit /\ GradientIdle /\ DensityIdle /\ UiIdle
    /\ crash \in CrashRecords(MaxCasualties, MaxInvolved)
    /\ magnitude = 0
    /\ libFeatures = <<>>
    /\ appFeatures = <<>>
    /\ scorePc = "input"
MagnitudeNext ==
    \/ CalculateTraditionalMagnitude
    \/ ConvertCrashData
SpecMagnitude == InitMagnitude /\ [][MagnitudeNext]_vars

----------------------------------------------------------------------------
\* C15: for every crash record with non-negative counts (all zero included,
\* speeding or not) calculateTraditionalMagnitude returns a value in [1, 10],
\* and the mag of the feature either convertCrashDataToGeoJSON builds from the
\* record is in [1, 6].
C15_MagnitudeInRange ==
    /\ scorePc \in {"scored", "converted"} => magnitude \in 10..100
    /\ scorePc = "converted" =>
          /\ \A k \in 1..Len(libFeatures) : libFeatures[k].mag \in 10..60
          /\ Len(appFeatures) = 1
          /\ appFeatures[1].mag \in 1..6

\* a record above both caps: magnitude 10, mag 6 in both conversions
C15_Witness ==
    /\ scorePc = "converted"
    /\ magnitude = 100
    /\ Len(libFeatures) = 1 /\ libFeatures[1].mag = 60
    /\ appFeatures[1].mag = 6
\* the all-zero record: the floor
C15_WitnessAllZero ==
    /\ scorePc = "converted"
    /\ fatalities(crash) + majorInjuries(crash) + vehicleCount(crash) = 0
    /\ magnitude = 10
    /\ Len(libFeatures) = 1 /\ libFeatures[1].mag = 10
    /\ appFeatures[1].mag = 1

----------------------------------------------------------------------------
\* C16: with every other field of the record fixed, a larger fatality count
\* or a larger major-injury count never gives a smaller
\* calculateTraditionalMagnitude.
C16_MonotoneInCasualties ==
    scorePc = "scored" =>
        \A fld \in CasualtyFields, n \in 1..MaxCasualties :
            calculateTraditionalMagnitude([crash EXCEPT ![fld] = @ + n]) >= magnitude

\* a speeding record whose magnitude grows with one more casualty of each kind
C16_Witness ==
    /\ scorePc = "scored"
    /\ crash.speedingInvolved > 0
    /\ fatalities(crash) > 0 /\ majorInjuries(crash) > 0
    /\ \A fld \in CasualtyFields :
          calculateTraditionalMagnitude([crash EXCEPT ![fld] = @ + 1]) > magnitude

----------------------------------------------------------------------------
\* C17: the involved-party term of the magnitude is 0 for zero or one involved
\* party, grows by a fixed bonus (0.5) for each further party, never exceeds
\* its cap (1.5) and is never negative.
C17_InvolvedPartyContribution ==
    scorePc \in {"scored", "converted"} =>
        LET v == vehicleCount(crash)
            c == vehicleContribution(crash)
        IN  /\ c >= 0
            /\ c <= 15
            /\ v <= 1 => c = 0
            /\ v >= 1 => c = Min((v - 1) * 5, 15)

(***************************************************************************)
(* lib/mapUtils.ts: createRouteGradientStops.  Densities are numbers, here *)
(* in tenths (10 is the density 1.0), so that a list can be compared with  *)
(* the same list scaled up: the pair (L, k * L) is also the pair           *)
(* (M, M / k).  A stop is a position num/den on the line and a colour.     *)
(***************************************************************************)
MaxSegments == 3        \* length of a density list

DensityValues == {0, 1, 5, 10, 50}      \* 0, 0.1, 0.5, 1 and 5 incidents
Scales == {1, 2, 10}
DensityLists == UNION {[1..n -> DensityValues] : n \in 0..MaxSegments}

Stop(num, den, color) == [num |-> num, den |-> den, color |-> color]

RECURSIVE MaxOf(_, _)
MaxOf(ds, n) == IF n = 0 THEN 0 ELSE Max(ds[n], MaxOf(ds, n - 1))
\* l.407: Math.max(...segmentDensities, 1)
maxDensity(ds) == Max(MaxOf(ds, Len(ds)), 10)

\* l.414-425: the colour of intensity = density / maxDensity
color(density, maxD) ==
    IF density * 10 > 7 * maxD THEN "#ff0000"
    ELSE IF density * 10 > 4 * maxD THEN "#ff6600"
    ELSE IF density * 10 > 2 * maxD THEN "#ffff00"
    ELSE "#00ff00"

\* l.411: index / Math.max(1, segmentDensities.length - 1), index from 0
position(index, ds) == <<index, Max(1, Len(ds) - 1)>>

\* l.431-433: a single stop is repeated at the end of the line
ensureEndNever(ds, expression) == expression
ensureEnd(ds, expression) ==
    IF Len(ds) = 1
    THEN Append(expression, Stop(1, 1, expression[Len(expression)].color))
    ELSE expression

createRouteGradientStops(ds) ==
    IF Len(ds) = 0
    THEN <<Stop(0, 1, "#00ff00"), Stop(1, 1, "#00ff00")>>
    ELSE ensureEnd(ds,
            [i \in 1..Len(ds) |->
                Stop(position(i - 1, ds)[1], position(i - 1, ds)[2],
                     color(ds[i], maxDensity(ds)))])

Scaled(ds, k) == [i \in 1..Len(ds) |-> ds[i] * k]

CreateRouteGradientStops ==
    /\ gradientPc = "input"
    /\ stops' = createRouteGradientStops(segmentDensities)
    /\ gradientPc' = "encoded"
    /\ UNCHANGED <<segmentDensities, scale, scaledStops>>
    /\ UNCHANGED <<scoreVars, densityVars>>
    /\ UNCHANGED notPureVars

\* the second call, on the list with every density multiplied by scale
CreateScaledRouteGradientStops ==
    /\ gradientPc = "encoded"
    /\ scaledStops' = createRouteGradientStops(Scaled(segmentDensities, scale))
    /\ gradientPc' = "compared"
    /\ UNCHANGED <<segmentDensities, scale, stops>>
    /\ UNCHANGED <<scoreVars, densityVars>>
    /\ UNCHANGED notPureVars

InitGradient ==
    /\ BreakerInit /\ RouteInit /\ EnrichInit /\ ScoreIdle /\ DensityIdle /\ UiIdle
    /\ segmentDensities \in DensityLists
    /\ scale \in Scales
    /\ stops = <<>>
    /\ scaledStops = <<>>
    /\ gradientPc = "input"
GradientNext ==
    \/ CreateRouteGradientStops
    \/ CreateScaledRouteGradientStops
SpecGradient == InitGradient /\ [][GradientNext]_vars

----------------------------------------------------------------------------
\* C18: createRouteGradientStops([]) is a single flat low-risk colour (green)
\* at progress 0 and 1; createRouteGradientStops([d]) is exactly two stops,
\* at progress 0 and 1, with the same colour bucket.
AtStart(st) == st.num = 0
AtEnd(st) == st.num = st.den
C18_DegenerateGradients ==
    gradientPc \in {"encoded", "compared"} =>
        /\ Len(segmentDensities) = 0 =>
              /\ Len(stops) = 2
              /\ AtStart(stops[1]) /\ AtEnd(stops[2])
              /\ stops[1].color = "#00ff00" /\ stops[2].color = "#00ff00"
        /\ Len(segmentDensities) = 1 =>
              /\ Len(stops) = 2
              /\ AtStart(stops[1]) /\ AtEnd(stops[2])
              /\ stops[1].color = stops[2].color

\* a single density 5: two red stops
C18_Witness ==
    /\ gradientPc = "encoded"
    /\ segmentDensities = <<50>>
    /\ Len(stops) = 2 /\ stops[1].color = "#ff0000" /\ stops[2].color = "#ff0000"
C18_WitnessEmpty ==
    /\ gradientPc = "encoded"
    /\ segmentDensities = <<>>
    /\ Len(stops) = 2

----------------------------------------------------------------------------
\* C19: for every non-empty density list and every positive constant k,
\* createRouteGradientStops gives each segment the same colour bucket for the
\* list and for the list with every density multiplied by k.
C19_ScaleInvariantBuckets ==
    gradientPc = "compared" /\ Len(segmentDensities) > 0 =>
        /\ Len(scaledStops) = Len(stops)
        /\ \A i \in 1..Len(stops) : scaledStops[i].color = stops[i].color

(***************************************************************************)
(* lib/mapUtils.ts: calculateRouteSegmentDensities.  Points are [lng, lat] *)
(* pairs on one meridian, latitudes in units of 1e-4 degree: there the     *)
(* haversine formula reduces to R * |dLat| (sinDLon = 0, so                *)
(* a_calc = sin^2(dLat/2) and c = |dLat| in radians), 11.119 m to the      *)
(* unit.  Distances are in millimetres.                                    *)
(***************************************************************************)
MaxVertices == 3        \* vertices of a polyline
MaxIncidents == 2       \* incidents in the list

bufferMeters == 100     \* the default of the third parameter

\* latitudes 0, 8 and 9 units apart from the first (88.95 m and 100.07 m), and one far away
Positions == {0, 8, 9, 30}
Point(lat) == <<-770000, 389000 + lat>>
Polylines == UNION {[1..n -> {Point(lat) : lat \in Positions}] : n \in 0..MaxVertices}
IncidentLists ==
    UNION {[1..n -> {[longitude |-> Point(lat)[1], latitude |-> Point(lat)[2]] :
                        lat \in Positions}] : n \in 0..MaxIncidents}

\* l.76-88 for a[0] = b[0]: R * toRad(|b[1] - a[1]|), in mm
haversine(a, b) == Abs(b[2] - a[2]) * 11119

\* l.380-383
distanceToSegmentStartOnly(crashPoint, segmentStart, segmentEnd) ==
    haversine(crashPoint, segmentStart)
distanceToSegment(crashPoint, segmentStart, segmentEnd) ==
    Min(haversine(crashPoint, segmentStart), haversine(crashPoint, segmentEnd))

\* l.378-385: crashes.filter(...)
segmentCrashes(cd, segmentStart, segmentEnd) ==
    SelectSeq(cd, LAMBDA cr :
        distanceToSegment(<<cr.longitude, cr.latitude>>, segmentStart, segmentEnd)
            <= bufferMeters * 1000)

\* l.368-390: one push per i in 0..routeLength - 2
calculateRouteSegmentDensities(rc, cd) ==
    IF Len(rc) < 2 THEN <<>>
    ELSE [i \in 1..(Len(rc) - 1) |-> Len(segmentCrashes(cd, rc[i], rc[i + 1]))]

CalculateRouteSegmentDensities ==
    /\ densityPc = "input"
    /\ densities' = calculateRouteSegmentDensities(routeCoordinates, crashData)
    /\ densityPc' = "done"
    /\ UNCHANGED <<routeCoordinates, crashData>>
    /\ UNCHANGED <<scoreVars, gradientVars>>
    /\ UNCHANGED notPureVars

InitDensity ==
    /\ BreakerInit /\ RouteInit /\ EnrichInit /\ ScoreIdle /\ GradientIdle /\ UiIdle
    /\ routeCoordinates \in Polylines
    /\ crashData \in IncidentLists
    /\ densities = <<>>
    /\ densityPc = "input"
DensityNext == CalculateRouteSegmentDensities
SpecDensity == InitDensity /\ [][DensityNext]_vars

----------------------------------------------------------------------------
\* C20: calculateRouteSegmentDensities returns the empty list for a polyline
\* of 0 or 1 vertices, and otherwise exactly (vertex count - 1) values in
\* segment order, value i being the number of incidents whose distance to the
\* nearer endpoint of segment i is at most the buffer.
NearEndpoint(k, i) ==
    LET p == <<crashData[k].longitude, crashData[k].latitude>>
    IN  \/ haversine(p, routeCoordinates[i]) <= bufferMeters * 1000
        \/ haversine(p, routeCoordinates[i + 1]) <= bufferMeters * 1000
C20_SegmentDensities ==
    densityPc = "done" =>
        /\ Len(routeCoordinates) < 2 => densities = <<>>
        /\ Len(routeCoordinates) >= 2 =>
              /\ Len(densities) = Len(routeCoordinates) - 1
              /\ \A i \in 1..Len(densities) :
                    densities[i] =
                        Cardinality({k \in 1..Len(crashData) : NearEndpoint(k, i)})

\* two segments with different counts; an incident 88.95 m from the first
\* vertex counts for both, one 100.07 m from the second vertex only for the first
C20_Witness ==
    /\ densityPc = "done"
    /\ routeCoordinates = <<Point(0), Point(9), Point(30)>>
    /\ Len(crashData) = 2
    /\ densities = <<2, 1>>
\* a single vertex: no segment
C20_WitnessDegenerate ==
    /\ densityPc = "done"
    /\ Len(routeCoordinates) = 1
    /\ Len(crashData) > 0
    /\ densities = <<>>

----------------------------------------------------------------------------
\* C24: after handleClear the stored routes are empty and no route layer is
\* on the map, and this stays so until the next route request is started,
\* even when a handleGetRoute was still in flight when Clear was pressed.
\* A state without endpoints, routes and layers is the initial state or the
\* state handleClear leaves (setOriginCoord never stores null), and a handler
\* can be suspended in it only when Clear was pressed after the handler
\* started.
Cleared ==
    /\ originCoord = Null /\ destCoord = Null
    /\ routes = <<>>
    /\ mapLayers = {}
C24_ClearedStaysCleared ==
    [][Cleared /\ ~HandleGetRoute => routes' = <<>> /\ mapLayers' = {}]_vars

\* Clear was pressed while the routing request was out
C24_ClearedInFlight == Cleared /\ routePc = "directions" /\ loading

(***************************************************************************)
(* useCrashData (app/hooks/useCrashData.ts): the hook mounted by Home with *)
(* autoLoad.  A request is a fetchCrashData call suspended at its fetch;   *)
(* it keeps the year filter of the render that created its closure.  The   *)
(* store answers page p of a year with one record and hasNext = p < pages. *)
(***************************************************************************)
MaxRequests == 3        \* requests the hook sends in a run
MaxPages == 2           \* pages the store holds for a year

Years == {"2024", "2025"}

Request(id, year, page, append) ==
    [id |-> id, year |-> year, page |-> page, append |-> append]

\* l.32-46: fetchCrashData up to `await fetch(...)`, with the year filter of
\* the render whose closure is called
fetchCrashData(year, page, append) ==
    /\ issued < MaxRequests
    /\ crashLoading' = TRUE
    /\ error' = FALSE
    /\ requests' = requests \cup {Request(issued + 1, year, page, append)}
    /\ issued' = issued + 1

\* l.85-90 and the effect of l.93-97, which runs loadPage(1) when the year
\* filter of the new render differs
SetYearFilter(year) ==
    /\ yearFilter' = year
    /\ data' = <<>>
    /\ pagination' = Null
    /\ IF year # yearFilter
       THEN fetchCrashData(year, 1, FALSE)
       ELSE UNCHANGED <<crashLoading, error, requests, issued>>
    /\ UNCHANGED notHookVars

\* l.74-79
LoadMore ==
    /\ pagination # Null /\ pagination.hasNext /\ ~crashLoading
    /\ fetchCrashData(yearFilter, pagination.page + 1, TRUE)
    /\ UNCHANGED <<yearFilter, data, pagination>>
    /\ UNCHANGED notHookVars

\* l.81-83
Refresh ==
    /\ fetchCrashData(yearFilter, 1, FALSE)
    /\ UNCHANGED <<yearFilter, data, pagination>>
    /\ UNCHANGED notHookVars

\* l.52-60, l.65-67: the response of request r is ok
CrashResponseOk(r) ==
    /\ r \in requests
    /\ requests' = requests \ {r}
    /\ data' = IF r.append
               THEN Append(data, [year |-> r.year, page |-> r.page])
               ELSE <<[year |-> r.year, page |-> r.page]>>
    /\ pagination' = [page |-> r.page, hasNext |-> r.page < MaxPages]
    /\ crashLoading' = FALSE
    /\ UNCHANGED <<yearFilter, error, issued>>
    /\ UNCHANGED notHookVars

\* l.48-50, l.61-67: the fetch rejects or the response is not ok
CrashResponseFails(r) ==
    /\ r \in requests
    /\ requests' = requests \ {r}
    /\ error' = TRUE
    /\ crashLoading' = FALSE
    /\ UNCHANGED <<yearFilter, data, pagination, issued>>
    /\ UNCHANGED notHookVars

AllRequests ==
    {Request(id, year, page, append) :
        id \in 1..MaxRequests, year \in Years, page \in 1..MaxPages,
        append \in BOOLEAN}

\* the hook after its first render and effect: page 1 of the initial year
\* has been asked for
InitHook ==
    /\ RestButHook
    /\ yearFilter = "2025"
    /\ data = <<>>
    /\ crashLoading = TRUE
    /\ error = FALSE
    /\ pagination = Null
    /\ requests = {Request(1, "2025", 1, FALSE)}
    /\ issued = 1
HookNext ==
    \/ \E year \in Years : SetYearFilter(year)
    \/ LoadMore
    \/ Refresh
    \/ \E r \in AllRequests : CrashResponseOk(r)
    \/ \E r \in AllRequests : CrashResponseFails(r)
SpecHook == InitHook /\ [][HookNext]_vars

----------------------------------------------------------------------------
\* C25: after setYearFilter(y), once every outstanding request has completed,
\* data holds only records that were fetched with year filter y and loading
\* is false, whatever the order in which the responses arrive.  (A record of
\* another year can only be there after the filter was changed: every request
\* carries the filter of the render that sent it.)
C25_DataFollowsYearFilter ==
    requests = {} =>
        /\ \A i \in 1..Len(data) : data[i].year = yearFilter
        /\ ~crashLoading

(***************************************************************************)
(* The incident store adapter (app/api/crashes/route.ts and                *)
(* app/api/crashes/nearby/route.ts).  A document's location.coordinates is *)
(* absent, an array of the wrong size, or a pair of components; a          *)
(* component is a number (whole degrees here), NaN, null or a string.  All *)
(* documents are dated inside the date filter.                             *)
(***************************************************************************)
MaxDocs == 2            \* documents in the collection

Num(v) == [kind |-> "number", v |-> v]
NaN == [kind |-> "NaN", v |-> 0]
NullComponent == [kind |-> "null", v |-> 0]
StringComponent == [kind |-> "string", v |-> 0]

LngComponents == {Num(-77), Num(0), Num(200), NaN, NullComponent, StringComponent}
LatComponents == {Num(38), Num(0), Num(95), NaN, NullComponent, StringComponent}

Doc(crashId, coordinates) == [crashId |-> crashId, coordinates |-> coordinates]
Documents ==
    {Doc("c1", <<lng, lat>>) : lng \in LngComponents, lat \in LatComponents}
    \cup {Doc("c1", <<>>), Doc("c1", <<Num(-77)>>), Doc("", <<Num(-77), Num(38)>>)}
Collections(maxDocs) == UNION {[1..n -> Documents] : n \in 0..maxDocs}

\* typeof x === 'number' (NaN is a number); MongoDB's $type: 'number' alike
IsNumber(x) == x.kind \in {"number", "NaN"}
IsNaN(x) == x.kind = "NaN"

\* baseQuery of l.70-76, and the same filters of l.243-247
baseQuery(doc) ==
    /\ Len(doc.coordinates) = 2
    /\ doc.coordinates[1].kind # "null" /\ IsNumber(doc.coordinates[1])
    /\ doc.coordinates[2].kind # "null" /\ IsNumber(doc.coordinates[2])
    /\ doc.crashId # ""

\* l.113-147 and l.276-311: documents the transformation keeps
Keeps(doc) ==
    /\ Len(doc.coordinates) = 2
    /\ IsNumber(doc.coordinates[1]) /\ IsNumber(doc.coordinates[2])
    /\ ~(doc.coordinates[1] = Num(0)) /\ ~(doc.coordinates[2] = Num(0))
    /\ ~IsNaN(doc.coordinates[1]) /\ ~IsNaN(doc.coordinates[2])
transform(found) ==
    LET kept == SelectSeq(found, Keeps)
    IN  [k \in 1..Len(kept) |->
            [id |-> kept[k].crashId, latitude |-> kept[k].coordinates[2],
             longitude |-> kept[k].coordinates[1]]]

\* loadCrashData (l.50-154) for a page that holds every match
loadCrashData(docs) == transform(SelectSeq(docs, baseQuery))

\* $nearSphere of l.233-241: a 2dsphere query matches only documents whose
\* point is a valid one, within $maxDistance (metres, along the meridian of
\* the centre)
nearSphere(doc, lng, lat, radius) ==
    /\ Len(doc.coordinates) = 2
    /\ doc.coordinates[1].kind = "number" /\ doc.coordinates[2].kind = "number"
    /\ doc.coordinates[1].v \in (-180)..180 /\ doc.coordinates[2].v \in (-90)..90
    /\ doc.coordinates[1].v = lng
    /\ Abs(doc.coordinates[2].v - lat) * 111195 <= radius
nearbyQuery(docs, lng, lat, radius) ==
    transform(SelectSeq(docs, LAMBDA doc :
        nearSphere(doc, lng, lat, radius) /\ baseQuery(doc)))

\* the two GET handlers: 500 with an error body when anything throws
Ok(records) == [status |-> 200, data |-> records, error |-> FALSE]
ServerError == [status |-> 500, data |-> <<>>, error |-> TRUE]
BadRequest == [status |-> 400, data |-> <<>>, error |-> TRUE]
GETCrashes(docs, up) == IF up THEN Ok(loadCrashData(docs)) ELSE ServerError
GETNearby(docs, up, lng, lat, radius) ==
    IF lng = 0 \/ lat = 0 THEN BadRequest
    ELSE IF up THEN Ok(nearbyQuery(docs, lng, lat, radius))
    ELSE ServerError

GetCrashes ==
    /\ storePc \in {"input", "nearby"}
    /\ pageResponse' = GETCrashes(collection, storeUp)
    /\ storePc' = IF storePc = "input" THEN "page" ELSE "both"
    /\ UNCHANGED <<collection, storeUp, nearbyResponse>>
    /\ UNCHANGED notStoreVars

GetNearby(lng, lat, radius) ==
    /\ storePc \in {"input", "page"}
    /\ nearbyResponse' = GETNearby(collection, storeUp, lng, lat, radius)
    /\ storePc' = IF storePc = "input" THEN "nearby" ELSE "both"
    /\ UNCHANGED <<collection, storeUp, pageResponse>>
    /\ UNCHANGED notStoreVars

InitStore ==
    /\ RestButStore
    /\ collection \in Collections(MaxDocs)
    /\ storeUp \in BOOLEAN
    /\ pageResponse = Null
    /\ nearbyResponse = Null
    /\ storePc = "input"
StoreNext ==
    \/ GetCrashes
    \/ \E lng \in {-77, 0}, radius \in {300, 500} : GetNearby(lng, 38, radius)
SpecStore == InitStore /\ [][StoreNext]_vars

----------------------------------------------------------------------------
\* C22: no record returned by the adapter (paged load, nearby query) has a
\* missing, non-numeric, NaN, zero or out-of-range location.
ValidLocation(rec) ==
    /\ rec.latitude.kind = "number" /\ rec.longitude.kind = "number"
    /\ rec.latitude.v # 0 /\ rec.longitude.v # 0
    /\ rec.latitude.v \in (-90)..90
    /\ rec.longitude.v \in (-180)..180
C22_OnlyValidLocations ==
    /\ pageResponse # Null =>
          \A k \in 1..Len(pageResponse.data) : ValidLocation(pageResponse.data[k])
    /\ nearbyResponse # Null =>
          \A k \in 1..Len(nearbyResponse.data) : ValidLocation(nearbyResponse.data[k])

\* the filters that are there do their work: nothing missing, non-numeric,
\* NaN or zero is returned, and the valid document is
C22_FiltersApplied ==
    /\ storePc = "both" /\ storeUp
    /\ \E k \in 1..Len(collection) : ~Keeps(collection[k])
    /\ Len(pageResponse.data) = 1 /\ ValidLocation(pageResponse.data[1])
    /\ Len(nearbyResponse.data) = 1

(***************************************************************************)
(* Map clicks: the handlers that MapView.tsx registers on the map, the     *)
(* computeNearbyStats they await, and the point picking of the directions  *)
(* sidebar.  The handlers and computeNearbyStats are created once, in the  *)
(* effect that builds the map (MapView.tsx:203-647, no dependencies), so   *)
(* what they read of the props is what the props were at mount.  The       *)
(* clicked point is ClickPoint; coordinates are whole degrees, as in the   *)
(* store part.                                                             *)
(***************************************************************************)
MaxClicks == 2          \* click and double-click events of one behaviour

ClickPoint == [lng |-> -77, lat |-> 38]
Layers == {"dc-point", "dc-heat", "none"}       \* what lies under the pointer

\* the crash list of the props at mount, all of it on the meridian of the
\* clicked point: nothing, an incident at the point, an incident a degree north
ActiveDatas ==
    {<<>>, <<[latitude |-> 38, longitude |-> -77]>>,
     <<[latitude |-> 39, longitude |-> -77]>>}
ClickCollections == {<<>>, <<Doc("c1", <<Num(-77), Num(38)>>)>>}

\* MapView.tsx:343-357, in metres, for two points of one meridian
calculateDistance(lat1, lon1, lat2, lon2) == Abs(lat2 - lat1) * 111195

\* the objects computeNearbyStats returns; radiusMeters is <<r>>, or <<>>
\* when the property is not there
EmptyStats(radiusMeters) ==
    [count |-> 0, radiusMeters |-> <<radiusMeters>>, severityCounts |-> FALSE]
FoundStats(n, radiusMeters) ==
    [count |-> n, radiusMeters |-> <<radiusMeters>>, severityCounts |-> TRUE]
CaughtStats == [count |-> 0, radiusMeters |-> <<>>, severityCounts |-> FALSE]

\* l.309-318: the client-side filter of the records of the response
validCrashes(records) ==
    SelectSeq(records, LAMBDA c :
        /\ c.id # ""
        /\ IsNumber(c.latitude) /\ IsNumber(c.longitude)
        /\ ~IsNaN(c.latitude) /\ ~IsNaN(c.longitude)
        /\ c.latitude # Num(0) /\ c.longitude # Num(0))

\* computeNearbyStats (l.244-341).  net and response are the outcome of the
\* fetch of l.296: it rejects when net is "down", else resolves to response
computeNearbyStats(active, net, response, center, radiusMeters) ==
    IF Len(active) > 0
    THEN LET nearbyCrashes == SelectSeq(active, LAMBDA c :
                 calculateDistance(center.lat, center.lng, c.latitude, c.longitude)
                     <= radiusMeters)
         IN  IF Len(nearbyCrashes) = 0 THEN EmptyStats(radiusMeters)
             ELSE FoundStats(Len(nearbyCrashes), radiusMeters)
    ELSE IF net = "down" THEN CaughtStats
    ELSE IF response.status # 200 THEN EmptyStats(radiusMeters)
    ELSE IF Len(validCrashes(response.data)) = 0 THEN EmptyStats(radiusMeters)
    ELSE FoundStats(Len(validCrashes(response.data)), radiusMeters)

\* the radius each handler asks computeNearbyStats for
QueryRadius(handler) ==
    CASE handler \in {"click dc-point", "click dc-heat", "click"} -> 300
      [] handler \in {"dblclick dc-point", "dblclick dc-heat"} -> 500
      [] handler = "dblclick" -> 400

\* the isMapPickingMode the handlers closed over: the prop at mount
isMapPickingModeAtMount == FALSE

\* onMapPick of the origin field (l.589-592) and of the destination field
\* (l.620-623)
OnMapPickOrigin ==
    /\ isOriginMapPicking' = ~isOriginMapPicking
    /\ isDestMapPicking' = FALSE
    /\ UNCHANGED <<isMapPickingMode, activeData, network, pendingClicks, delivered, clicks>>
    /\ UNCHANGED notClickVars
OnMapPickDest ==
    /\ isDestMapPicking' = ~isDestMapPicking
    /\ isOriginMapPicking' = FALSE
    /\ UNCHANGED <<isMapPickingMode, activeData, network, pendingClicks, delivered, clicks>>
    /\ UNCHANGED notClickVars

\* handleMapClick (DirectionsSidebar.tsx:54-72), registered on 'click' while
\* a picking mode is active (l.74-80)
handleMapClick ==
    IF isOriginMapPicking
    THEN /\ originCoord' = ClickPoint
         /\ isOriginMapPicking' = FALSE
         /\ UNCHANGED <<destCoord, isDestMapPicking>>
    ELSE IF isDestMapPicking
    THEN /\ destCoord' = ClickPoint
         /\ isDestMapPicking' = FALSE
         /\ UNCHANGED <<originCoord, isOriginMapPicking>>
    ELSE UNCHANGED <<originCoord, destCoord, isOriginMapPicking, isDestMapPicking>>

\* a 'click' of the map reaches the handler of the layer under the pointer
\* (MapView.tsx:434, 470), the general handler (l.571) and handleMapClick;
\* the handlers of MapView run up to their await of computeNearbyStats
MapClick(layer) ==
    /\ clicks < MaxClicks
    /\ clicks' = clicks + 1
    /\ pendingClicks' =
          IF isMapPickingMode THEN pendingClicks
          ELSE pendingClicks \cup
                 {[id |-> clicks + 1,
                   handler |-> IF layer = "none" THEN "click" ELSE "click " \o layer]}
    /\ handleMapClick
    /\ UNCHANGED <<isMapPickingMode, activeData, network, delivered>>
    /\ UNCHANGED <<loading, routes, selectedRouteIndex, rerouteInfo, mapLayers,
                   routePc, predictResult>>
    /\ UNCHANGED <<breakerVars, enrichVars, pureVars, hookVars, storeVars, popupVars>>

\* a 'dblclick': the handlers of the layers (l.520, 555) do not look at the
\* picking mode, the general one (l.602) does
MapDblClick(layer) ==
    /\ clicks < MaxClicks
    /\ clicks' = clicks + 1
    /\ pendingClicks' =
          IF layer = "none" /\ isMapPickingMode THEN pendingClicks
          ELSE pendingClicks \cup
                 {[id |-> clicks + 1,
                   handler |-> IF layer = "none" THEN "dblclick" ELSE "dblclick " \o layer]}
    /\ UNCHANGED <<isOriginMapPicking, isDestMapPicking, isMapPickingMode,
                   activeData, network, delivered>>
    /\ UNCHANGED notClickVars

\* what a handler passes to onPopupCreate once computeNearbyStats has
\* returned stats
Popup(handler, stats) ==
    [handler |-> handler, computed |-> stats,
     stats |-> CASE handler = "click" /\ stats.count = 0 ->
                        [count |-> 0, radiusMeters |-> <<600>>, severityCounts |-> FALSE]
                 [] handler = "dblclick" /\ stats.count = 0 ->
                        [count |-> 0, radiusMeters |-> <<800>>, severityCounts |-> FALSE]
                 [] OTHER -> stats]

\* computeNearbyStats returns to the handler p, which creates its popup
ClickSettles(p) ==
    /\ p \in pendingClicks
    /\ pendingClicks' = pendingClicks \ {p}
    /\ LET radiusMeters == QueryRadius(p.handler)
           fetched == Len(activeData) = 0 /\ network = "up"
           response == GETNearby(collection, storeUp, ClickPoint.lng,
                                 ClickPoint.lat, radiusMeters)
           stats == computeNearbyStats(activeData, network, response, ClickPoint,
                                       radiusMeters)
       IN  /\ nearbyResponse' = IF fetched THEN response ELSE nearbyResponse
           /\ delivered' =
                 IF p.handler \in {"click", "dblclick"} \/ ~isMapPickingModeAtMount
                 THEN Popup(p.handler, stats)
                 ELSE delivered
    /\ UNCHANGED <<isOriginMapPicking, isDestMapPicking, isMapPickingMode,
                   activeData, network, clicks>>
    /\ UNCHANGED <<collection, storeUp, pageResponse, storePc>>
    /\ UNCHANGED <<notUiVars, hookVars, popupVars>>

Handlers ==
    {"click dc-point", "click dc-heat", "click",
     "dblclick dc-point", "dblclick dc-heat", "dblclick"}
AllClicks == {[id |-> id, handler |-> handler] : id \in 1..MaxClicks, handler \in Handlers}

InitClick ==
    /\ BreakerInit /\ RouteInit /\ EnrichInit
    /\ ScoreIdle /\ GradientIdle /\ DensityIdle
    /\ HookIdle /\ PopupIdle
    /\ collection \in ClickCollections
    /\ storeUp \in BOOLEAN
    /\ pageResponse = Null /\ nearbyResponse = Null /\ storePc = "idle"
    /\ isOriginMapPicking = FALSE /\ isDestMapPicking = FALSE
    /\ isMapPickingMode = isMapPickingModeAtMount
    /\ activeData \in ActiveDatas
    /\ network \in {"up", "down"}
    /\ pendingClicks = {}
    /\ delivered = Null
    /\ clicks = 0
ClickNext ==
    \/ OnMapPickOrigin
    \/ OnMapPickDest
    \/ \E layer \in Layers : MapClick(layer)
    \/ \E layer \in Layers : MapDblClick(layer)
    \/ \E p \in AllClicks : ClickSettles(p)
SpecClick == InitClick /\ [][ClickNext]_vars

----------------------------------------------------------------------------
\* whether the query of radius r around the clicked point succeeds and
\* finds no incident
NoIncident(r) ==
    IF Len(activeData) > 0
    THEN \A k \in 1..Len(activeData) :
            calculateDistance(ClickPoint.lat, ClickPoint.lng,
                              activeData[k].latitude, activeData[k].longitude) > r
    ELSE /\ network = "up" /\ storeUp
         /\ nearbyQuery(collection, ClickPoint.lng, ClickPoint.lat, r) = <<>>

\* C21: a click or double-click that queries radius r and finds no incident
\* delivers stats with count 0, radiusMeters r and no severityCounts.
C21_EmptyQueryStats ==
    delivered # Null /\ NoIncident(QueryRadius(delivered.handler)) =>
        delivered.stats = EmptyStats(QueryRadius(delivered.handler))

\* C23: with the store unreachable, the nearby API answers differently from
\* a successful empty query, and so do the stats computeNearbyStats returns.
C23_StoreErrorDistinct ==
    delivered # Null /\ Len(activeData) = 0 /\ network = "up" /\ ~storeUp =>
        /\ nearbyResponse # Ok(<<>>)
        /\ delivered.computed #
              computeNearbyStats(<<>>, "up", Ok(<<>>), ClickPoint,
                                 QueryRadius(delivered.handler))

MaxPopups == 2          \* popups created in one behaviour
MaxTimers == 1          \* pending timers of one kind

PopupOf(id) == [id |-> id]

\* the condition under which the auto-dismiss effect keeps its interval
\* (part_003:211)
Counting(p, visible, hovered, loaded) ==
    p # Null /\ visible /\ ~hovered /\ loaded

\* the fetch effect after a render in which popup or popupVisible changed:
\* the pending timer is cleared; without a visible popup the data is reset,
\* else a new timer is started.  loaded is aiDataLoaded before the effect.
FetchEffect(p, visible, loaded) ==
    IF p = Null \/ ~visible
    THEN /\ apiData' = Null
         /\ apiError' = FALSE
         /\ aiDataLoaded' = FALSE
         /\ fetchTimer' = Null
         /\ timeLeft' = autoDismissMs
    ELSE /\ UNCHANGED <<apiData, apiError>>
         /\ aiDataLoaded' = loaded
         /\ fetchTimer' = p
         /\ timeLeft' = IF Counting(p, visible, isHovered, loaded)
                        THEN timeLeft ELSE autoDismissMs

\* onPopupCreate of part_018:67
OnPopupCreate ==
    /\ created < MaxPopups
    /\ created' = created + 1
    /\ popup' = PopupOf(created + 1)
    /\ popupVisible' = FALSE
    /\ frames' = frames + 1
    /\ FetchEffect(popup', FALSE, aiDataLoaded)
    /\ UNCHANGED <<removals, isHovered, apiLoading, fetches, dismissals,
                   closedPopups, settledPopups>>
    /\ UNCHANGED notPopupVars

\* the animation frame of onPopupCreate: setPopupVisible(true)
FrameFires ==
    /\ frames > 0
    /\ frames' = frames - 1
    /\ popupVisible' = TRUE
    /\ IF popupVisible
       THEN UNCHANGED <<apiData, apiError, aiDataLoaded, fetchTimer, timeLeft>>
       ELSE FetchEffect(popup, TRUE, aiDataLoaded)
    /\ UNCHANGED <<popup, removals, isHovered, apiLoading, fetches, dismissals,
                   created, closedPopups, settledPopups>>
    /\ UNCHANGED notPopupVars

\* onClose of part_018:73
onClose ==
    /\ popupVisible' = FALSE
    /\ removals' = removals + 1
    /\ closedPopups' = IF popup = Null THEN closedPopups
                       ELSE closedPopups \cup {popup.id}
    /\ IF popupVisible
       THEN FetchEffect(popup, FALSE, aiDataLoaded)
       ELSE UNCHANGED <<apiData, apiError, aiDataLoaded, fetchTimer, timeLeft>>
    /\ UNCHANGED <<popup, frames, isHovered, apiLoading, fetches, created,
                   settledPopups>>
    /\ UNCHANGED notPopupVars

\* the close button (part_003:284); the overlay is rendered for a popup only
CloseButton ==
    /\ popup # Null
    /\ removals < MaxTimers
    /\ onClose
    /\ UNCHANGED dismissals

\* the timer of onClose: setPopup(null)
RemovalFires ==
    /\ removals > 0
    /\ removals' = removals - 1
    /\ popup' = Null
    /\ IF popup = Null
       THEN UNCHANGED <<apiData, apiError, aiDataLoaded, fetchTimer, timeLeft>>
       ELSE FetchEffect(Null, popupVisible, aiDataLoaded)
    /\ UNCHANGED <<popupVisible, frames, isHovered, apiLoading, fetches, dismissals,
                   created, closedPopups, settledPopups>>
    /\ UNCHANGED notPopupVars

\* the 300 ms timer: fetchApiData runs up to its await (part_003:40-51)
FetchTimerFires ==
    /\ fetchTimer # Null
    /\ fetchTimer' = Null
    /\ apiLoading' = TRUE
    /\ apiError' = FALSE
    /\ aiDataLoaded' = FALSE
    /\ fetches' = fetches \cup {fetchTimer.id}
    /\ timeLeft' = autoDismissMs
    /\ UNCHANGED <<popup, popupVisible, frames, removals, isHovered, apiData,
                   dismissals, created, closedPopups, settledPopups>>
    /\ UNCHANGED notPopupVars

\* both requests of the fetchApiData of popup id have answered
\* (part_003:53-57, 62-64), or one has failed (l.58-64)
FetchSettles(id, ok) ==
    /\ id \in fetches
    /\ fetches' = fetches \ {id}
    /\ settledPopups' = settledPopups \cup {id}
    /\ apiData' = IF ok THEN PopupOf(id) ELSE apiData
    /\ apiError' = IF ok THEN apiError ELSE TRUE
    /\ aiDataLoaded' = TRUE
    /\ apiLoading' = FALSE
    /\ timeLeft' = IF Counting(popup, popupVisible, isHovered, TRUE)
                   THEN timeLeft ELSE autoDismissMs
    /\ UNCHANGED <<popup, popupVisible, frames, removals, isHovered, fetchTimer,
                   dismissals, created, closedPopups>>
    /\ UNCHANGED notPopupVars

\* part_003:249-250
MouseEnter ==
    /\ popup # Null /\ ~isHovered
    /\ isHovered' = TRUE
    /\ timeLeft' = autoDismissMs
    /\ UNCHANGED <<popup, popupVisible, frames, removals, aiDataLoaded, apiData,
                   apiError, apiLoading, fetchTimer, fetches, dismissals, created,
                   closedPopups, settledPopups>>
    /\ UNCHANGED notPopupVars
MouseLeave ==
    /\ popup # Null /\ isHovered
    /\ isHovered' = FALSE
    /\ UNCHANGED <<timeLeft, popup, popupVisible, frames, removals, aiDataLoaded,
                   apiData, apiError, apiLoading, fetchTimer, fetches, dismissals,
                   created, closedPopups, settledPopups>>
    /\ UNCHANGED notPopupVars

\* a tick of the interval (part_003:217-227)
CountdownTick ==
    /\ Counting(popup, popupVisible, isHovered, aiDataLoaded)
    /\ LET newValue == timeLeft - interval
       IN  IF newValue <= 0
           THEN /\ dismissals < MaxTimers
                /\ dismissals' = dismissals + 1
                /\ timeLeft' = 0
           ELSE /\ timeLeft' = newValue
                /\ UNCHANGED dismissals
    /\ UNCHANGED <<popup, popupVisible, frames, removals, isHovered, aiDataLoaded,
                   apiData, apiError, apiLoading, fetchTimer, fetches, created,
                   closedPopups, settledPopups>>
    /\ UNCHANGED notPopupVars

\* the timer of l.222 fires: the popup is dismissed
AutoDismiss ==
    /\ dismissals > 0
    /\ dismissals' = dismissals - 1
    /\ onClose

InitPopup ==
    /\ RestButPopup
    /\ PopupIdle
PopupNext ==
    \/ OnPopupCreate
    \/ FrameFires
    \/ CloseButton
    \/ RemovalFires
    \/ FetchTimerFires
    \/ \E id \in 1..MaxPopups, ok \in BOOLEAN : FetchSettles(id, ok)
    \/ MouseEnter
    \/ MouseLeave
    \/ CountdownTick
    \/ AutoDismiss
SpecPopup == InitPopup /\ [][PopupNext]_vars

----------------------------------------------------------------------------
\* C26: a popup stays set until it is itself closed or auto-dismissed: the
\* delayed removal that the closing of an earlier popup scheduled never
\* clears a later popup.
C26_RemovalOnlyOfClosed ==
    [][popup # Null /\ popup' = Null => popup.id \in closedPopups]_vars

\* C27: the fetched data and aiDataLoaded belong to the current popup: the
\* response for an earlier popup is never applied once another popup is set.
C27_DataOfCurrentPopup ==
    [][\A id \in 1..MaxPopups :
          FetchSettles(id, TRUE) \/ FetchSettles(id, FALSE) =>
              popup = PopupOf(id)]_vars

\* C28: the popup is not auto-dismissed while it is hovered, nor before the
\* load of its data has settled.
C28_DismissOnlySettledUnhovered ==
    [][AutoDismiss /\ popup # Null =>
          ~isHovered /\ popup.id \in settledPopups]_vars

(***************************************************************************)
(* app/lib/mapUtils.ts: calculateRouteCrashDensity and                     *)
(* createRouteGradientStops, as renderMultipleRoutes of                    *)
(* DirectionsSidebar.tsx:257-260 chains them.  Points lie on one meridian  *)
(* as above; a density is counted in twentieths (severityScore / 20); a    *)
(* position i / (n - 1) is the pair of its numerator and denominator, so   *)
(* 0 / 0, which is NaN, is a stop with denominator 0.                      *)
(***************************************************************************)
searchRadiusMeters == 150       \* the third argument at DirectionsSidebar.tsx:259

AppPositions == {0, 30}         \* 333 m apart
AppPolylines ==
    UNION {[1..n -> {Point(lat) : lat \in AppPositions}] : n \in 0..MaxVertices}
\* a crash with its fatalities, major injuries and involved parties summed
AppCrashes ==
    {[longitude |-> Point(lat)[1], latitude |-> Point(lat)[2],
      fatal |-> f, majorInjuries |-> m, total |-> t] :
        lat \in AppPositions, f \in {0, 1}, m \in {0, 1}, t \in {0, 2}}
AppCrashLists(maxIncidents) == UNION {[1..n -> AppCrashes] : n \in 1..maxIncidents}

\* l.396-401
severity(c) == Max(1, c.fatal * 5 + c.majorInjuries * 3 + c.total)

\* l.386-403: the severityScore of the crashes within the radius of a point
RECURSIVE severityScore(_, _, _)
severityScore(currentPoint, cd, n) ==
    IF n = 0 THEN 0
    ELSE severityScore(currentPoint, cd, n - 1)
         + (IF haversine(currentPoint, <<cd[n].longitude, cd[n].latitude>>)
                  <= searchRadiusMeters * 1000
            THEN severity(cd[n]) ELSE 0)

\* l.376-413, densities in twentieths
calculateRouteCrashDensity(rc, cd) ==
    [i \in 1..Len(rc) |-> Min(20, severityScore(rc[i], cd, Len(cd)))]

\* l.434-445, for a density in twentieths
appColor(density) ==
    IF density < 4 THEN "#22c55e"
    ELSE IF density < 8 THEN "#eab308"
    ELSE IF density < 12 THEN "#f97316"
    ELSE IF density < 16 THEN "#dc2626"
    ELSE "#7f1d1d"

\* l.417-453; the default gradient of l.418-427 for an empty list
appCreateRouteGradientStops(ds) ==
    IF Len(ds) = 0
    THEN <<Stop(0, 1, "green"), Stop(1, 1, "red")>>
    ELSE [k \in 1..Len(ds) |-> Stop(k - 1, Len(ds) - 1, appColor(ds[k]))]

CalculateRouteCrashDensity ==
    /\ densityPc = "app input"
    /\ densities' = calculateRouteCrashDensity(routeCoordinates, crashData)
    /\ densityPc' = "app densities"
    /\ UNCHANGED <<routeCoordinates, crashData>>
    /\ UNCHANGED <<scoreVars, gradientVars>>
    /\ UNCHANGED notPureVars

AppCreateRouteGradientStops ==
    /\ densityPc = "app densities"
    /\ stops' = appCreateRouteGradientStops(densities)
    /\ densityPc' = "app stops"
    /\ UNCHANGED <<routeCoordinates, crashData, densities>>
    /\ UNCHANGED <<segmentDensities, scale, scaledStops, gradientPc>>
    /\ UNCHANGED scoreVars
    /\ UNCHANGED notPureVars

InitAppGradient ==
    /\ BreakerInit /\ RouteInit /\ EnrichInit /\ ScoreIdle /\ GradientIdle /\ UiIdle
    /\ routeCoordinates \in AppPolylines
    /\ crashData \in AppCrashLists(MaxIncidents)
    /\ densities = <<>>
    /\ densityPc = "app input"
AppGradientNext == CalculateRouteCrashDensity \/ AppCreateRouteGradientStops
SpecAppGradient == InitAppGradient /\ [][AppGradientNext]_vars

----------------------------------------------------------------------------
\* whether a / b < c / d, for positive denominators
Before(s, t) == s.num * t.den < t.num * s.den

\* C30: for every non-empty density list the stops have well-defined numeric
\* positions that start at 0, end at 1 and increase strictly, one stop per
\* density.
C30_StopPositions ==
    densityPc = "app stops" /\ Len(densities) > 0 =>
        /\ Len(stops) = Len(densities)
        /\ \A k \in 1..Len(stops) : stops[k].den > 0
        /\ stops[1].num = 0
        /\ stops[Len(stops)].num = stops[Len(stops)].den
        /\ \A k \in 1..(Len(stops) - 1) : Before(stops[k], stops[k + 1])

====
